---- MODULE Spec2Model ----
(***************************************************************************)
(* The two-tier cache of jarvis (cache_manager.py): a per-process memory   *)
(* tier in front of a directory of <key>.json files shared by processes.   *)
(* One action per CacheManager operation, taken atomically, plus the       *)
(* environment: the wall clock, a process restart, garbage written into a  *)
(* cache file, the cache directory removed. Further: the derivation of the *)
(* key from key data, a second cache directory, set taken step by step     *)
(* against the reads of another process, and the cached code analysis of   *)
(* code_analyzer.py with the fingerprint of the analysed directory.        *)
(***************************************************************************)
EXTENDS Integers, FiniteSets, Sequences, TLC

\* ------------------------------------------------------------ bounds
\* The clock runs over 0..MaxTime.
MaxTime == 3
\* max_age_seconds (86400 in the program), scaled to the model's clock.
TTL == 2
\* The number of calls of persistent_cached_analyze_code.
MaxCalls == 2
\* The number of inputs run_conversation takes, and of KeyboardInterrupts.
MaxTurns == 2
MaxInterrupts == 3
\* The number of times send_message asks for the status of its run.
MaxPolls == 3

Procs == {"A", "B"}
Keys == {"k1", "k2"}

NONE == "None"

\* Values handed to set: a JSON-native value and a tuple (which JSON writes as
\* a list); and with them an object json cannot serialise.
Values == {"text", "tuple"}

PyValues == Values \cup {"handle"}

\* ------------------------------------------------------------ entries
\* A memory-tier slot or the content of <key>.json.
\*   absent       no entry / no file
\*   entry        {"timestamp": ts, "data": data}
\*   nodata       {"timestamp": ts}
\*   nots         an object without "timestamp"
\*   badts        an object whose "timestamp" is not a number
\*   nonobject    valid JSON that is not an object
\*   badjson      text that is not JSON (also an empty or truncated file)
\*   undecodable  bytes that are not text in the file's encoding
NoEntry == [kind |-> "absent", ts |-> 0, data |-> NONE]

Entry(t, d) == [kind |-> "entry", ts |-> t, data |-> d]

NoData(t) == [kind |-> "nodata", ts |-> t, data |-> NONE]

Garbage(kind) == [kind |-> kind, ts |-> 0, data |-> NONE]

GarbageKinds == {"undecodable", "badjson", "nonobject", "nots", "badts"}

VARIABLES
  now,           \* time.time()
  memory_cache,  \* memory_cache[p][k]: the memory tier of process p
  files,         \* files[k]: the content of <k>.json in the cache directory
  dirExists,     \* the cache directory exists
  lastSet,       \* history: when set was last called for each key
  last,          \* the last operation, its arguments and its outcome
  keyData,       \* the key data of the last get or set, and of the one before
  sibling,       \* sibling[k]: the content of <k>.json in a sibling cache directory
  fd,            \* fd[p]: the file process p has open for writing, in set
  blocks,        \* blocks[k]: what <k>.json holds, block by block, and by which write
  passed,        \* history: passed[k], the values handed to set(k, .) so far
  tree,          \* the directory given to the code analysis, and its files
  codeCache,     \* the files of ~/.jarvis/cache/code_analysis, by fingerprint
  run,           \* the last fingerprint or cached analysis computed, and its outcome
  client,        \* the language-model service as send_message has used it
  analysis,      \* the last call of analyze_file, its file and what came of it
  report,        \* the last call of analyze_project, its tree and its result
  asm,           \* the last prompt assembled or query processed, and its outcome
  conv,          \* run_conversation: where it is, the mixer, the calls made so far
  step,          \* step[p]: the cache operation process p is in, statement by statement
  lru            \* what lru_cache keeps for cached_analyze_code, by directory

vars == <<now, memory_cache, files, dirExists, lastSet, last, keyData, sibling,
          fd, blocks, passed, tree, codeCache, run, client, analysis,
          report, asm, conv, step, lru>>

\* What the cache and the cached code analysis leave alone.
appVars == <<client, analysis, report, asm, conv, step, lru>>

\* ------------------------------------------------------------ json
\* json.dump raises TypeError on an object it cannot serialise.
Serializable(v) == v # "handle"

\* What json.load gives back for what json.dump wrote: a tuple comes back as
\* a list, every JSON-native value as itself.
JsonRoundTrip(v) == IF v = "tuple" THEN "list" ELSE v

\* ------------------------------------------------------------ key data
\* Key data as Python holds it: a str, an object json cannot serialise, or a
\* dict, whose items are kept in the order they were inserted.
Str(a) == [tag |-> "str", atom |-> a, items |-> << >>]

Obj(a) == [tag |-> "object", atom |-> a, items |-> << >>]

Dict(items) == [tag |-> "dict", atom |-> NONE, items |-> items]

Item(n, v) == [name |-> n, val |-> v]

\* The two orders a dict of two items may have been built in.
Orders(i, j) == {Dict(<<i, j>>), Dict(<<j, i>>)}

\* The key of a cached response, {"content": ..., "thread_id": ...}, nested
\* in a dict with a second item; the content is one of two messages or an
\* object json cannot serialise.
Contents == {Str("q1"), Str("q2"), Obj("handle")}

KeyData ==
  UNION {Orders(Item("message", inner), Item("model", Str("m1"))) :
           inner \in UNION {Orders(Item("content", c), Item("thread_id", Str("t1"))) :
                              c \in Contents}}

NoKeyData == Str(NONE)

\* The dict keys of the model in the order sort_keys puts them.
NameOrder == <<"content", "message", "model", "thread_id">>

Rank(n) == CHOOSE i \in DOMAIN NameOrder : NameOrder[i] = n

\* Mutant: json.dumps without sort_keys.
SortKeys_Insertion(items) == items

\* sort_keys=True: the items of a dict by key.
SortKeys(items) ==
  CHOOSE s \in [DOMAIN items -> {items[i] : i \in DOMAIN items}] :
    \A i, j \in DOMAIN items : i < j => Rank(s[i].name) < Rank(s[j].name)

\* Mutant: json.dumps with default=str, which serialises any object.
KeySerializable_Lenient(d) == TRUE

\* json.dumps raises TypeError on an object it cannot serialise, at any depth.
RECURSIVE KeySerializable(_)
KeySerializable(d) ==
  /\ d.tag # "object"
  /\ \A i \in DOMAIN d.items : KeySerializable(d.items[i].val)

\* json.dumps(data, sort_keys=True): the text, token by token.
RECURSIVE Dumps(_)
RECURSIVE DumpItems(_)
Dumps(d) ==
  IF d.tag = "dict"
    THEN <<"{">> \o DumpItems(SortKeys(d.items)) \o <<"}">>
    ELSE <<d.atom>>

DumpItems(items) ==
  IF Len(items) = 0 THEN << >>
  ELSE <<items[1].name, ":">> \o Dumps(items[1].val)
         \o (IF Len(items) > 1 THEN <<",">> ELSE << >>)
         \o DumpItems(Tail(items))

\* The key data whose text has the digest files and slots are named k1 by.
KeyOne ==
  Dict(<<Item("message", Dict(<<Item("content", Str("q1")),
                               Item("thread_id", Str("t1"))>>)),
         Item("model", Str("m1"))>>)

\* cache_key = {"content": content, "thread_id": self.thread.id} of
\* send_message, for the thread t1.
CacheKeyOf(content) ==
  Dict(<<Item("content", Str(content)), Item("thread_id", Str("t1"))>>)

\* hashlib.sha256(text).hexdigest(): a digest per text; the key data that
\* are used together have different texts, with the digests k1 and k2.
Sha256(text) ==
  IF text \in {Dumps(KeyOne), Dumps(CacheKeyOf(""))} THEN "k1" ELSE "k2"

\* _generate_key(data)
GenerateKey(d) == Sha256(Dumps(d))

\* ------------------------------------------------------------ faults
\* The file-system fault an operation runs into, if any.
NoFault == "ok"

GetFaults == {"ok", "openfail", "rmfail", "allfail"}

SetFaults == {"ok", "openfail", "writefail"}

ClearFaults == {"ok", "listfail", "openfail", "rmfail", "allfail"}

OpenFails(io) == io \in {"openfail", "allfail"}

RemoveFails(io) == io \in {"rmfail", "allfail"}

\* ------------------------------------------------------------ get
\* Mutant: the operands of the age swapped, so that no past entry expires.
MemFresh_Swapped(e, t) == e.ts - t < TTL

\* time.time() - cached["timestamp"] < self.max_age_seconds, memory tier.
MemFresh(e, t) == t - e.ts < TTL

\* Mutant: the file tier expires an entry one second early.
FileFresh_Early(e, t) == t - e.ts < TTL - 1

\* Mutant: the file tier still serves an entry at age ttl.
FileFresh_Inclusive(e, t) == t - e.ts <= TTL

\* time.time() - cached["timestamp"] < self.max_age_seconds, file tier.
FileFresh(e, t) == t - e.ts < TTL

\* Mutant: a promoted entry is stamped with the time of the read.
Promote_Restamped(f) == [f EXCEPT !.ts = now]

\* self.memory_cache[key] = cached: the parsed file content, as it is.
Promote(f) == f

\* What a get did: the memory slot and the file it leaves, what it returned or
\* raised, the tier that decided and the slot or content it examined there.
Outcome(m, f, r, x, tier, seen) ==
  [mem |-> m, file |-> f, ret |-> r, exc |-> x, tier |-> tier, seen |-> seen]

\* The except clause of get: if the file (still) exists, remove it; the
\* remove itself is unguarded.
GetHandler(m, f, io) ==
  IF RemoveFails(io)
    THEN Outcome(m, f, NONE, "OSError", "file", f)
    ELSE Outcome(m, NoEntry, NONE, "none", "file", f)

\* The file tier of get, reached with memory slot m (absent, or just evicted).
GetFromFile(m, f, t, io) ==
  IF f.kind = "absent" THEN Outcome(m, f, NONE, "none", "none", NoEntry)
  ELSE IF OpenFails(io) THEN GetHandler(m, f, io)
  ELSE IF f.kind = "undecodable"
    THEN Outcome(m, f, NONE, "UnicodeDecodeError", "file", f)
  ELSE IF f.kind \in {"badjson", "nots"} THEN GetHandler(m, f, io)
  ELSE IF f.kind \in {"nonobject", "badts"}
    THEN Outcome(m, f, NONE, "TypeError", "file", f)
  ELSE IF FileFresh(f, t)
    THEN IF f.kind = "nodata"
           THEN GetHandler(Promote(f), f, io)
           ELSE Outcome(Promote(f), f, f.data, "none", "file", f)
  ELSE GetHandler(m, f, io)

\* get(key_data), with memory slot m and file content f, at time t.
GetOutcome(m, f, t, io) ==
  IF m.kind # "absent" /\ MemFresh(m, t)
    THEN IF m.kind = "nodata"
           THEN Outcome(m, f, NONE, "KeyError", "memory", m)
           ELSE Outcome(m, f, m.data, "none", "memory", m)
    ELSE GetFromFile(NoEntry, f, t, io)

\* ------------------------------------------------------------ set
\* set(key_data, value) at time t, the file holding f: the memory tier is
\* written first; open(path, "w") truncates the file and json.dump writes
\* into it; an OSError is swallowed, json.dump's TypeError is not.
\* Mutant: the memory tier keeps what the file would give back, not the value.
SetEntry_Serialised(v, t) == Entry(t, JsonRoundTrip(v))

\* cache_data, as the memory tier keeps it.
SetEntry(v, t) == Entry(t, v)

\* How the file write of set ends: open fails (OSError), json.dump cannot
\* serialise the value (TypeError), the write fails (OSError), or all is written.
SetWrite(v, io, dirOk) ==
  IF ~dirOk \/ io = "openfail" THEN "openfail"
  ELSE IF ~Serializable(v) THEN "typeerror"
  ELSE IF io = "writefail" THEN "writefail"
  ELSE "ok"

\* Mutant: set writes the memory tier only.
SetFile_MemoryOnly(v, f, t, io, dirOk) == f

\* The file after set: untouched when open failed, truncated or cut short
\* when the write did not complete, the entry otherwise.
SetFile(v, f, t, io, dirOk) ==
  LET w == SetWrite(v, io, dirOk)
  IN IF w = "openfail" THEN f
     ELSE IF w = "ok" THEN Entry(t, JsonRoundTrip(v))
     ELSE Garbage("badjson")

\* Mutant: the OSError of the file write reaches the caller.
SetExc_Propagates(v, io, dirOk) ==
  LET w == SetWrite(v, io, dirOk)
  IN IF w = "typeerror" THEN "TypeError"
     ELSE IF w = "ok" THEN "none"
     ELSE "OSError"

\* What set raises: except OSError: pass.
SetExc(v, io, dirOk) ==
  IF SetWrite(v, io, dirOk) = "typeerror" THEN "TypeError" ELSE "none"

\* ------------------------------------------------------------ clear
\* clear(max_age_seconds=None): None stands for self.max_age_seconds.
ClearArgs ==
  {[given |-> FALSE, value |-> 0]} \cup {[given |-> TRUE, value |-> n] : n \in 0..(TTL - 1)}

Threshold(arg) == IF arg.given THEN arg.value ELSE TTL

\* current_time - v["timestamp"] > max_age_seconds, memory tier.
MemExpired(e, m, t) == t - e.ts > m

\* current_time - cached["timestamp"] > max_age_seconds, file tier.
FileExpired(e, m, t) == t - e.ts > m

SweptKeys(mem, m, t) == {k \in Keys : mem[k].kind # "absent" /\ MemExpired(mem[k], m, t)}

SweepMemory(mem, m, t) ==
  [k \in Keys |-> IF k \in SweptKeys(mem, m, t) THEN NoEntry ELSE mem[k]]

FileResult(f, n, x) == [file |-> f, n |-> n, exc |-> x]

\* Mutant: a deletion that failed is counted.
SweepRemove_CountsFailure(f, io) ==
  IF RemoveFails(io) THEN FileResult(f, 1, "none") ELSE FileResult(NoEntry, 1, "none")

\* os.remove in clear: counted when it succeeds, passed over when it fails.
SweepRemove(f, io) ==
  IF RemoveFails(io) THEN FileResult(f, 0, "none") ELSE FileResult(NoEntry, 1, "none")

\* One file of the sweep.
SweepFile(f, m, t, io) ==
  IF OpenFails(io) THEN SweepRemove(f, io)
  ELSE IF f.kind = "undecodable" THEN FileResult(f, 0, "UnicodeDecodeError")
  ELSE IF f.kind \in {"nonobject", "badts"} THEN FileResult(f, 0, "TypeError")
  ELSE IF f.kind \in {"badjson", "nots"} THEN SweepRemove(f, io)
  ELSE IF FileExpired(f, m, t) THEN SweepRemove(f, io)
  ELSE FileResult(f, 0, "none")

\* The files of the directory in the order os.listdir gives them; an
\* exception ends the sweep where it is raised.
RECURSIVE SweepFiles(_, _, _, _, _)
SweepFiles(order, fs, m, t, io) ==
  IF order = << >> THEN [files |-> fs, n |-> 0, exc |-> "none"]
  ELSE LET k == Head(order)
           r == SweepFile(fs[k], m, t, io)
       IN IF r.exc # "none" THEN [files |-> fs, n |-> 0, exc |-> r.exc]
          ELSE LET rest == SweepFiles(Tail(order), [fs EXCEPT ![k] = r.file], m, t, io)
               IN [files |-> rest.files, n |-> r.n + rest.n, exc |-> rest.exc]

\* The orders os.listdir may list the existing files in.
Listings(fs) ==
  LET present == {k \in Keys : fs[k].kind # "absent"}
  IN {o \in [1..Cardinality(present) -> present] :
        \A i, j \in 1..Cardinality(present) : o[i] = o[j] => i = j}

\* ------------------------------------------------------------ a set in progress
\* json.dump writes the text of the entry through a buffer: an entry larger
\* than the buffer reaches the file in several writes. Two blocks here: the
\* first holds the timestamp and the head of the value, the second the rest.
\* A block is known by the write it comes from.
NoBlock == [ts |-> 0, data |-> NONE]

Block(t, v) == [ts |-> t, data |-> JsonRoundTrip(v)]

NoBlocks == [b1 |-> NoBlock, b2 |-> NoBlock]

\* No file open; and the file a set has open: how many blocks it has written
\* (pos - 1), the entry it writes, and whether the file it writes is still the
\* one under the name <key>.json.
Closed == [pos |-> 0, key |-> NONE, val |-> NONE, ts |-> 0, linked |-> FALSE]

Opened(k, v, t) == [pos |-> 1, key |-> k, val |-> v, ts |-> t, linked |-> TRUE]

\* What json.load makes of the blocks: no JSON while a block is missing; the
\* entry when both come from writes of one value; when they come from writes
\* of different values, an entry of the first's timestamp whose value is
\* neither of them if the two texts fit together, and no JSON if they do not.
ParseBlocks(b, fit) ==
  IF b.b1 = NoBlock \/ b.b2 = NoBlock THEN Garbage("badjson")
  ELSE IF b.b1.data = b.b2.data THEN Entry(b.b1.ts, b.b1.data)
  ELSE IF fit THEN Entry(b.b1.ts, "torn")
  ELSE Garbage("badjson")

\* ------------------------------------------------------------ the analysed directory
\* The directory handed to the code analysis and the files that may be in
\* it: two Python files, one of them in a package, a Python file name that
\* is a link to nothing, and a file that is not Python.
Directory == "proj"

Paths == {"a.py", "l.py", "notes.txt", "pkg/b.py"}

\* os.walk(directory): the directory first, then the package; sorted(files)
\* in each.
Walk == <<"a.py", "l.py", "notes.txt", "pkg/b.py">>

\* file.endswith('.py')
EndsWithPy(path) == path \in {"a.py", "l.py", "pkg/b.py"}

\* What a file may hold, and os.path.getsize of it.
Texts == {"f", "g", "gg"}

Size(text) == IF text = "gg" THEN 2 ELSE 1

\* No file; a file last saved at t; a link whose target does not exist (it is
\* listed, and os.path.getmtime raises OSError on it).
NoFile == [kind |-> "absent", mtime |-> 0, text |-> NONE]

File(t, text) == [kind |-> "file", mtime |-> t, text |-> text]

Broken == [kind |-> "broken", mtime |-> 0, text |-> NONE]

\* Mutant: the fingerprint leaves the size out.
FileInfo_NoSize(path, f) ==
  IF f.kind = "broken" THEN [path |-> path, stat |-> FALSE, mtime |-> 0, size |-> 0]
  ELSE [path |-> path, stat |-> TRUE, mtime |-> f.mtime, size |-> 0]

\* Mutant: the fingerprint leaves the modification time out.
FileInfo_NoMtime(path, f) ==
  IF f.kind = "broken" THEN [path |-> path, stat |-> FALSE, mtime |-> 0, size |-> 0]
  ELSE [path |-> path, stat |-> TRUE, mtime |-> 0, size |-> Size(f.text)]

\* f"{file_path}:{mtime}:{size}", or the path alone when stat raises OSError.
FileInfo(path, f) ==
  IF f.kind = "broken" THEN [path |-> path, stat |-> FALSE, mtime |-> 0, size |-> 0]
  ELSE [path |-> path, stat |-> TRUE, mtime |-> f.mtime, size |-> Size(f.text)]

\* files_info: one item for each listed file that ends with .py, in the order
\* of the walk.
RECURSIVE FilesInfo(_, _)
FilesInfo(fs, walk) ==
  IF walk = << >> THEN << >>
  ELSE LET path == Head(walk)
       IN (IF fs[path].kind # "absent" /\ EndsWithPy(path)
             THEN <<FileInfo(path, fs[path])>>
             ELSE << >>) \o FilesInfo(fs, Tail(walk))

\* hashlib.md5(text).hexdigest(): a digest per text, known by its text.
Md5(text) == [md5 |-> text]

\* _generate_cache_key(directory): the digest of the directory name alone if
\* it is not a directory, else of directory + "|" + "|".join(files_info).
GenerateCacheKey(t) ==
  IF ~t.isdir THEN Md5([dir |-> Directory, listed |-> FALSE, infos |-> << >>])
  ELSE Md5([dir |-> Directory, listed |-> TRUE, infos |-> FilesInfo(t.files, Walk)])

\* What analyze_file finds in a file: the text of a Python file that can be
\* read and parsed, nothing otherwise.
Parsed(path, f) == IF EndsWithPy(path) /\ f.kind = "file" THEN f.text ELSE NONE

\* analyze_project(project_dir): the report of what every Python file of the
\* tree holds, with its summary; the empty report when there is no directory.
AnalyzeProject(t) ==
  LET a == Parsed("a.py", t.files["a.py"])
      b == Parsed("pkg/b.py", t.files["pkg/b.py"])
  IN IF ~t.isdir THEN "files: {}"
     ELSE IF b = NONE
       THEN CASE a = NONE -> "files: {}"
              [] a = "f" -> "files: {a.py: f}"
              [] a = "g" -> "files: {a.py: g}"
              [] a = "gg" -> "files: {a.py: gg}"
       ELSE CASE a = NONE -> "files: {pkg/b.py: f}"
              [] a = "f" -> "files: {a.py: f, pkg/b.py: f}"
              [] a = "g" -> "files: {a.py: g, pkg/b.py: f}"
              [] a = "gg" -> "files: {a.py: gg, pkg/b.py: f}"

\* Mutant: every cached result is taken for a miss.
Truthy_Never(v) == FALSE

\* if cached_result: / if cached_response: None is false, and so is an
\* empty value, the empty string among them; a report is a dict with two keys.
Truthy(v) == v \notin {NONE, ""}

\* try: from cache_manager import CacheManager; the module is there.
HasCacheManager == TRUE

\* Nothing computed yet.
NoTree == [isdir |-> FALSE, files |-> [path \in Paths |-> NoFile]]

NoKey == Md5([dir |-> NONE, listed |-> FALSE, infos |-> << >>])

NoRun ==
  [op |-> "none", calls |-> 0, key |-> NoKey, tree |-> NoTree, ret |-> NONE,
   analyses |-> 0, hit |-> FALSE, prevKey |-> NoKey, prevRet |-> NONE]

\* ------------------------------------------------------------ the extractor
\* A statement of a Python source as ast.parse gives it: its kind, its name
\* (NONE where the kind has none), the line it starts on and its body.
Node(kind, name, lineno, body) ==
  [kind |-> kind, name |-> name, lineno |-> lineno, body |-> body]

\* The modules: up to two statements, of at most three lines each. A
\* statement starting on line l is a function (holding a function or not), a
\* coroutine function, class Foo, an if holding a function, or an import; the
\* body of the class holds no definition, a method, a class holding a
\* method, or a method holding a function.
Modules ==
  LET Names == {"bar", "baz"}
      Defs(l) == {Node("FunctionDef", n, l, << >>) : n \in Names}
      Bodies(l) ==
        {<< >>}
          \cup {<<d>> : d \in Defs(l)}
          \cup {<<Node("ClassDef", "Inner", l, <<d>>)>> : d \in Defs(l + 1)}
          \cup {<<Node("FunctionDef", n, l, <<d>>)>> : n \in Names, d \in Defs(l + 1)}
      Stmts(l) ==
        Defs(l)
          \cup {Node("FunctionDef", n, l, <<d>>) : n \in Names, d \in Defs(l + 1)}
          \cup {Node("AsyncFunctionDef", n, l, << >>) : n \in Names}
          \cup {Node("ClassDef", "Foo", l, b) : b \in Bodies(l + 1)}
          \cup {Node("If", NONE, l, <<d>>) : d \in Defs(l + 1)}
          \cup {Node("Import", "os", l, << >>)}
  IN {<< >>} \cup {<<s>> : s \in Stmts(1)}
             \cup {<<s, t>> : s \in Stmts(1), t \in Stmts(4)}

\* CodeAnalyzer(): nothing found yet.
CodeAnalyzer == [functions |-> << >>, classes |-> << >>, imports |-> << >>]

\* NodeVisitor.visit(node) on the analyzer a. visit_FunctionDef records the
\* function and goes on into it; visit_ClassDef sets the functions aside,
\* visits the FunctionDef children of the class, takes what was recorded
\* meanwhile as the methods and puts the functions back; visit_Import records
\* the import; every other node is passed through (generic_visit).
RECURSIVE Visit(_, _)
RECURSIVE VisitAll(_, _)
Visit(node, a) ==
  CASE node.kind = "FunctionDef" ->
         VisitAll(node.body,
                  [a EXCEPT !.functions =
                     Append(@, [name |-> node.name, lineno |-> node.lineno])])
    [] node.kind = "ClassDef" ->
         LET children == SelectSeq(node.body, LAMBDA c : c.kind = "FunctionDef")
             inner == VisitAll(children, [a EXCEPT !.functions = << >>])
         IN [inner EXCEPT
               !.functions = a.functions,
               !.classes = Append(@, [name |-> node.name, lineno |-> node.lineno,
                                      methods |-> inner.functions])]
    [] node.kind = "Import" ->
         VisitAll(node.body,
                  [a EXCEPT !.imports = Append(@, [type |-> "import", name |-> node.name])])
    [] OTHER -> VisitAll(node.body, a)

VisitAll(nodes, a) ==
  IF nodes = << >> THEN a ELSE VisitAll(Tail(nodes), Visit(Head(nodes), a))

\* What is at the path given to analyze_file: nothing, a directory, a file
\* that cannot be opened, a file whose bytes are not UTF-8, a file with a
\* syntax error, or a file that parses to a module.
OnDisk(kind, module) == [kind |-> kind, module |-> module]

OnDisks ==
  {OnDisk(kind, << >>) :
     kind \in {"absent", "directory", "unreadable", "undecodable", "syntax"}}
    \cup {OnDisk("module", m) : m \in Modules}

\* The exception raised inside the try of analyze_file, if any: by open, by
\* read, by ast.parse.
Raised(path, c) ==
  CASE c.kind \in {"absent", "directory"} \/ ~EndsWithPy(path) -> "none"
    [] c.kind = "unreadable" -> "PermissionError"
    [] c.kind = "undecodable" -> "UnicodeDecodeError"
    [] c.kind = "syntax" -> "SyntaxError"
    [] OTHER -> "none"

\* Mutant: analyze_file catches SyntaxError alone.
Caught_SyntaxOnly(exc) == exc = "SyntaxError"

\* except SyntaxError / except Exception: every exception raised there is
\* one of Exception.
Caught(exc) ==
  exc \in {"SyntaxError", "PermissionError", "UnicodeDecodeError"}

\* analyze_file(path): the analyzer, or None (found FALSE); exc is what
\* reaches the caller.
AnalyzeFile(path, c) ==
  LET exc == Raised(path, c)
      parsed == c.kind = "module" /\ EndsWithPy(path)
  IN [found |-> parsed,
      exc |-> IF exc = "none" \/ Caught(exc) THEN "none" ELSE exc,
      analyzer |-> IF parsed THEN VisitAll(c.module, CodeAnalyzer) ELSE CodeAnalyzer]

\* No call of analyze_file yet.
NoAnalysis ==
  [op |-> "none", path |-> NONE, file |-> OnDisk("absent", << >>),
   out |-> [found |-> FALSE, exc |-> "none", analyzer |-> CodeAnalyzer],
   listed |-> << >>]

\* ------------------------------------------------------------ analyze_project
\* What the texts of the tree's files hold: a function; class Foo with a
\* method beside a function of the same name; an import and a function
\* holding a function; and a text with a syntax error.
SourceTexts == Texts \cup {"bad"}

ParseText(text) ==
  CASE text = "f" -> OnDisk("module", <<Node("FunctionDef", "bar", 1, << >>)>>)
    [] text = "g" ->
         OnDisk("module",
                <<Node("ClassDef", "Foo", 1, <<Node("FunctionDef", "bar", 2, << >>)>>),
                  Node("FunctionDef", "bar", 4, << >>)>>)
    [] text = "gg" ->
         OnDisk("module",
                <<Node("Import", "os", 1, << >>),
                  Node("FunctionDef", "bar", 4,
                       <<Node("FunctionDef", "baz", 5, << >>)>>)>>)
    [] OTHER -> OnDisk("syntax", << >>)

\* What analyze_file finds at a path of the tree; os.path.isfile is false
\* for a link to nothing.
AtPath(f) == IF f.kind = "file" THEN ParseText(f.text) ELSE OnDisk("absent", << >>)

\* result, before any file is analysed.
EmptyResult ==
  [files |-> << >>, total_files |-> 0, total_functions |-> 0,
   total_classes |-> 0, total_imports |-> 0]

\* Mutant: the scan stops at the first file whose analysis fails.
RECURSIVE AnalyzeEach_Aborting(_, _, _)
AnalyzeEach_Aborting(fs, walk, result) ==
  IF walk = << >> THEN result
  ELSE LET path == Head(walk)
           out == AnalyzeFile(path, AtPath(fs[path]))
       IN IF fs[path].kind = "absent" \/ ~EndsWithPy(path)
            THEN AnalyzeEach_Aborting(fs, Tail(walk), result)
          ELSE IF ~out.found THEN result
          ELSE AnalyzeEach_Aborting(fs, Tail(walk),
                 [files |-> Append(result.files,
                                   [path |-> path,
                                    functions |-> out.analyzer.functions,
                                    classes |-> out.analyzer.classes,
                                    imports |-> out.analyzer.imports]),
                  total_files |-> result.total_files + 1,
                  total_functions |-> result.total_functions + Len(out.analyzer.functions),
                  total_classes |-> result.total_classes + Len(out.analyzer.classes),
                  total_imports |-> result.total_imports + Len(out.analyzer.imports)])

\* The two loops of analyze_project: the walk collects the listed files that
\* end with .py; each is given to analyze_file, and for each analyzer that
\* comes back an entry is added under the relative path and the summary
\* counted up.
RECURSIVE AnalyzeEach(_, _, _)
AnalyzeEach(fs, walk, result) ==
  IF walk = << >> THEN result
  ELSE LET path == Head(walk)
           out == AnalyzeFile(path, AtPath(fs[path]))
       IN IF fs[path].kind = "absent" \/ ~EndsWithPy(path) \/ ~out.found
            THEN AnalyzeEach(fs, Tail(walk), result)
            ELSE AnalyzeEach(fs, Tail(walk),
                   [files |-> Append(result.files,
                                     [path |-> path,
                                      functions |-> out.analyzer.functions,
                                      classes |-> out.analyzer.classes,
                                      imports |-> out.analyzer.imports]),
                    total_files |-> result.total_files + 1,
                    total_functions |-> result.total_functions + Len(out.analyzer.functions),
                    total_classes |-> result.total_classes + Len(out.analyzer.classes),
                    total_imports |-> result.total_imports + Len(out.analyzer.imports)])

\* analyze_project(project_dir), as the dict it returns.
AnalyzeProjectResult(t) ==
  IF ~t.isdir THEN EmptyResult ELSE AnalyzeEach(t.files, Walk, EmptyResult)

\* No call of analyze_project yet.
NoReport == [op |-> "none", tree |-> NoTree, result |-> EmptyResult]

\* ------------------------------------------------------------ the prompt
\* max_functions, max_classes and token_budget of generate_prompt_for_openai.
max_functions == 5

max_classes == 3

token_budget == 4000

\* An entry of the lists given to generate_prompt_for_openai: the dict of a
\* function or a class (its name, the length of its docstring, 0 for none,
\* the number of its methods, the file noted in "_file", its "_relevance",
\* and the words of the query found in its name or docstring; a function
\* has no arguments), or a value that is no dict, of a text of len
\* characters.
Info(kind, name, doc, methods, words) ==
  [tag |-> "dict", kind |-> kind, name |-> name, doc |-> doc, methods |-> methods,
   file |-> NONE, relevance |-> 0, words |-> words, len |-> 0]

Other(name, len) ==
  [tag |-> "other", kind |-> NONE, name |-> name, doc |-> 0, methods |-> 0,
   file |-> NONE, relevance |-> 0, words |-> {}, len |-> len]

\* The user question: its text, known by a name, and its length.
Query(text, len, words) == [text |-> text, len |-> len, words |-> words]

\* A piece of a text: the string it stands for and its length in characters.
Part(of, n) == [of |-> of, n |-> n]

\* len(s) of the names of the model, and os.path.basename.
Chars(s) == IF s \in {"a.py", "b.py"} THEN 4 ELSE 3

Basename(path) == IF path = "pkg/b.py" THEN "b.py" ELSE path

Min(a, b) == IF a < b THEN a ELSE b

\* format_function_info(function_info, max_docstring_length): "função
\* name(sem argumentos)", the file name if there is one, and the docstring,
\* cut to max_docstring_length characters and "..." if it is longer.
FormatFunctionInfo(f, max_docstring_length) ==
  LET docstring == IF f.doc > max_docstring_length /\ max_docstring_length > 0
                     THEN max_docstring_length + 3 ELSE f.doc
  IN Part(f.name,
          7 + Chars(f.name) + 1 + 14 + 1
            + (IF f.file # NONE THEN 11 + Chars(Basename(f.file)) + 1 ELSE 0)
            + (IF f.doc > 0 THEN 3 + docstring ELSE 0))

\* Mutant: the lists are not cut.
Truncate_Nothing(items, n) == items

\* items[:n]
Truncate(items, n) == SubSeq(items, 1, Min(n, Len(items)))

\* What generate_prompt_for_openai gives when it gives nothing.
NoOutput ==
  [exc |-> "none", functions |-> << >>, classes |-> << >>, formatted |-> << >>,
   token_estimate |-> 0, prompt |-> << >>]

\* "\n- ".join(info)
RECURSIVE Join(_)
Join(info) ==
  IF Len(info) <= 1 THEN info
  ELSE <<Head(info), Part("\n- ", 3)>> \o Join(Tail(info))

RECURSIVE Total(_)
Total(ns) == IF ns = << >> THEN 0 ELSE Head(ns) + Total(Tail(ns))

\* len(text)
Length(text) == Total([i \in DOMAIN text |-> text[i].n])

\* generate_prompt_for_openai(functions, classes, user_question): what it
\* raises, the entries it formats and those it keeps, its token estimate and
\* the prompt. A dict among the first classes raises TypeError, since
\* format_class_info takes no max_docstring_length.
GeneratePrompt(functions_, classes_, user_question) ==
  LET functions == Truncate(functions_, max_functions)
      classes == Truncate(classes_, max_classes)
      func_info == [i \in DOMAIN functions |->
                      IF functions[i].tag = "dict"
                        THEN FormatFunctionInfo(functions[i], 150)
                        ELSE Part(functions[i].name, Min(functions[i].len, 200))]
      class_info == [i \in DOMAIN classes |->
                       Part(classes[i].name, Min(classes[i].len, 200))]
      raises == \E i \in DOMAIN classes : classes[i].tag = "dict"
      token_estimate ==
        (user_question.len \div 4)
          + Total([i \in DOMAIN functions |->
                     IF functions[i].tag = "dict" THEN func_info[i].n \div 4 ELSE 50])
          + Total([i \in DOMAIN classes |-> 50])
      over == token_estimate > token_budget
      nf == IF over THEN Min(3, Len(functions)) ELSE Len(functions)
      nc == IF over THEN Min(2, Len(classes)) ELSE Len(classes)
      code_context ==
        <<Part("Contexto do código:\n", 20)>>
          \o (IF nf > 0
                THEN <<Part("Funções encontradas:\n- ", 23)>>
                       \o Join(SubSeq(func_info, 1, nf)) \o <<Part("\n\n", 2)>>
                ELSE <<Part("Nenhuma função encontrada.\n\n", 28)>>)
          \o (IF nc > 0
                THEN <<Part("Classes encontradas:\n- ", 23)>>
                       \o Join(SubSeq(class_info, 1, nc)) \o <<Part("\n\n", 2)>>
                ELSE <<Part("Nenhuma classe encontrada.\n\n", 28)>>)
  IN IF raises
       THEN [NoOutput EXCEPT !.exc = "TypeError"]
       ELSE [exc |-> "none",
             functions |-> SubSeq(functions, 1, nf),
             classes |-> SubSeq(classes, 1, nc),
             formatted |-> func_info \o class_info,
             token_estimate |-> token_estimate,
             prompt |-> code_context
                          \o <<Part("Pergunta do usuário: ", 21),
                               Part(user_question.text, user_question.len),
                               Part("\n\n", 2),
                               Part("Por favor, responda ...", 83)>>]

\* sorted(items, key=_relevance, reverse=True): a stable sort, equal
\* entries keeping their order.
RECURSIVE SortByRelevance(_)
SortByRelevance(items) ==
  IF items = << >> THEN << >>
  ELSE LET rest == SortByRelevance(Tail(items))
           x == Head(items)
           before == SelectSeq(rest, LAMBDA y : y.relevance > x.relevance)
           after == SelectSeq(rest, LAMBDA y : y.relevance <= x.relevance)
       IN before \o <<x>> \o after

\* The first loop of process_query_with_context over analysis["files"]: a
\* function gets len(docstring) + len(args) as its "_relevance" and the file
\* as its "_file"; for a class the relevance is written to func, the
\* function the loop saw last (UnboundLocalError if it has seen none), and
\* the class gets its "_file" only. acc holds the functions and classes so
\* far, in the order found.
RECURSIVE NoteClasses(_, _, _)
NoteClasses(classes, path, acc) ==
  IF classes = << >> \/ acc.exc # "none" THEN acc
  ELSE LET cls == Head(classes)
           n == Len(acc.functions)
       IN IF n = 0 THEN [acc EXCEPT !.exc = "UnboundLocalError"]
          ELSE NoteClasses(Tail(classes), path,
                 [acc EXCEPT !.functions[n].relevance = cls.doc + cls.methods,
                             !.classes = Append(@, [cls EXCEPT !.file = path])])

RECURSIVE NoteFiles(_, _)
NoteFiles(files_, acc) ==
  IF files_ = << >> \/ acc.exc # "none" THEN acc
  ELSE LET file == Head(files_)
           noted == [i \in DOMAIN file.functions |->
                       [file.functions[i] EXCEPT !.relevance = file.functions[i].doc,
                                                 !.file = file.path]]
       IN NoteFiles(Tail(files_),
                    NoteClasses(file.classes, file.path,
                                [acc EXCEPT !.functions = @ \o noted]))

\* process_query_with_context(directory, user_question, openai_client), the
\* analysis of the directory holding files_: the entries are noted and
\* sorted by relevance, the first 10 functions and 5 classes go to
\* generate_prompt_for_openai, and the prompt is returned, or sent if there
\* is a client. Any exception on the way is caught: with a client the
\* question is sent without context, without one an error text is returned.
ProcessQuery(files_, user_question, hasClient) ==
  LET noted == NoteFiles(files_, [functions |-> << >>, classes |-> << >>, exc |-> "none"])
      all_functions == Truncate(SortByRelevance(noted.functions), 10)
      all_classes == Truncate(SortByRelevance(noted.classes), 5)
      out == GeneratePrompt(all_functions, all_classes, user_question)
      exc == IF noted.exc # "none" THEN noted.exc ELSE out.exc
      fallback == <<Part("Pergunta do usuário (sem contexto de código): ", 46),
                    Part(user_question.text, user_question.len)>>
      error == <<Part("Erro ao processar consulta: ", 28), Part(exc, 40)>>
  IN [exc |-> exc,
      ranked |-> IF noted.exc = "none" THEN all_functions \o all_classes ELSE << >>,
      out |-> IF noted.exc = "none" THEN out ELSE NoOutput,
      sent |-> IF ~hasClient THEN << >>
               ELSE IF exc = "none" THEN out.prompt ELSE fallback,
      ret |-> IF hasClient THEN <<Part("response", 8)>>
              ELSE IF exc = "none" THEN out.prompt ELSE error]

\* Nothing assembled yet.
NoPrompt ==
  [op |-> "none", functions |-> << >>, classes |-> << >>,
   question |-> Query(NONE, 0, {}), client |-> FALSE,
   files |-> << >>,
   out |-> NoOutput,
   exc |-> "none", ranked |-> << >>, sent |-> << >>, ret |-> << >>]

\* No call of send_message yet.
\* A process that is in no cache operation. Inside one: the operation and
\* the statement it is at, the value and timestamp of a set, the time a
\* clear started at, whether a file is open, whether the open file is still
\* the one under the name <key>.json and what it held when it was unlinked;
\* after one: whether it opened a file, what it returned or raised.
Idle ==
  [op |-> "none", at |-> "idle", val |-> NONE, ts |-> 0, handle |-> FALSE,
   linked |-> FALSE, seen |-> NoEntry, opened |-> FALSE, ret |-> NONE,
   exc |-> "none"]

\* Before run_conversation is called.
NoConversation ==
  [pc |-> "idle", sp |-> "none", with_voice |-> FALSE, text_only |-> FALSE,
   blank |-> FALSE, mixer |-> FALSE, playing |-> FALSE, pending |-> FALSE,
   cleaned |-> FALSE, listens |-> 0, sends |-> 0, interrupts |-> 0]

NoClient ==
  [proc |-> NONE, content |-> NONE, image |-> NONE, posted |-> FALSE,
   ran |-> FALSE, exchange |-> NONE, ret |-> NONE, exc |-> "none",
   stored |-> FALSE, pc |-> "idle", status |-> NONE, seen |-> NONE, polls |-> 0]

\* ------------------------------------------------------------ state
\* History: the last call of set for a key (when, with what value, and how
\* its file write ended).
NeverSet == [done |-> FALSE, at |-> 0, val |-> NONE, write |-> NONE]

\* The record of an operation: its arguments (val: the value set; thr: the
\* threshold of clear; io: the fault met), what it returned (ret, count) or
\* raised (exc), and for a get: the tier that decided, the slot examined there,
\* whether the memory slot was evicted, the value of a set of the same key by
\* the same process right before (justSet), and whether a get of the same key
\* by the same process returned absent right before (afterMiss); and for a get
\* or a clear the keys whose files it deleted (removed).
Op(op, p, k, v, thr, io, r, x, n, tier, seen, evicted, justSet, afterMiss) ==
  [op |-> op, proc |-> p, key |-> k, val |-> v, thr |-> thr, io |-> io,
   ret |-> r, exc |-> x, count |-> n, tier |-> tier, seen |-> seen,
   evicted |-> evicted, justSet |-> justSet, afterMiss |-> afterMiss,
   removed |-> {}]

\* The keys whose files exist in fs and no longer in gs.
Removed(fs, gs) == {k \in Keys : fs[k].kind # "absent" /\ gs[k].kind = "absent"}

Call(op, p, k, v, thr, io, x, n) ==
  Op(op, p, k, v, thr, io, NONE, x, n, "none", NoEntry, FALSE, NONE, FALSE)

Env(op, k, v) == Call(op, NONE, k, v, 0, NoFault, "none", 0)

\* After construction: an existing, empty cache directory and empty memory
\* tiers; an empty tree to analyse and nothing analysed or asked yet.
InitCache ==
  /\ now = 0
  /\ memory_cache = [p \in Procs |-> [k \in Keys |-> NoEntry]]
  /\ files = [k \in Keys |-> NoEntry]
  /\ dirExists = TRUE
  /\ lastSet = [k \in Keys |-> NeverSet]
  /\ last = Env("init", NONE, NONE)
  /\ keyData = [cur |-> NoKeyData, prev |-> NoKeyData]
  /\ sibling = [k \in Keys |-> NoEntry]
  /\ fd = [p \in Procs |-> Closed]
  /\ blocks = [k \in Keys |-> NoBlocks]
  /\ passed = [k \in Keys |-> {}]
  /\ tree = [isdir |-> TRUE, files |-> [path \in Paths |-> NoFile]]
  /\ codeCache = << >>
  /\ run = NoRun
  /\ client = NoClient
  /\ analysis = NoAnalysis
  /\ report = NoReport
  /\ step = [p \in Procs |-> Idle]
  /\ lru = << >>

Init ==
  /\ InitCache
  /\ asm = NoPrompt
  /\ conv = NoConversation

\* ------------------------------------------------------------ actions
\* The wall clock advances.
Tick ==
  /\ now < MaxTime
  /\ now' = now + 1
  /\ last' = Env("tick", NONE, NONE)
  /\ UNCHANGED <<memory_cache, files, dirExists, lastSet>>

\* CacheManager.get(k) in process p.
Get(p, k, io) ==
  LET r == GetOutcome(memory_cache[p][k], files[k], now, io)
      m == memory_cache[p][k]
      same == last.proc = p /\ last.key = k
  IN /\ memory_cache' = [memory_cache EXCEPT ![p][k] = r.mem]
     /\ files' = [files EXCEPT ![k] = r.file]
     /\ last' = [Op("get", p, k, NONE, 0, io, r.ret, r.exc, 0, r.tier, r.seen,
                    m.kind # "absent" /\ ~MemFresh(m, now),
                    IF same /\ last.op = "set" THEN last.val ELSE NONE,
                    same /\ last.op = "get" /\ last.ret = NONE /\ last.exc = "none")
                  EXCEPT !.removed = Removed(files, files')]
     /\ UNCHANGED <<now, dirExists, lastSet>>

\* CacheManager.set(k, v) in process p.
Set(p, k, v, io) ==
  /\ memory_cache' = [memory_cache EXCEPT ![p][k] = SetEntry(v, now)]
  /\ files' = [files EXCEPT ![k] = SetFile(v, files[k], now, io, dirExists)]
  /\ lastSet' = [lastSet EXCEPT ![k] =
                  [done |-> TRUE, at |-> now, val |-> v,
                   write |-> SetWrite(v, io, dirExists)]]
  /\ last' = Call("set", p, k, v, 0, io, SetExc(v, io, dirExists), 0)
  /\ UNCHANGED <<now, dirExists>>

\* CacheManager.clear(arg) in process p, os.listdir listing the files as order.
Clear(p, arg, io, order) ==
  LET m == Threshold(arg)
      n0 == Cardinality(SweptKeys(memory_cache[p], m, now))
      listed == dirExists /\ io # "listfail"
      r == IF listed THEN SweepFiles(order, files, m, now, io)
           ELSE [files |-> files, n |-> 0, exc |-> "OSError"]
  IN /\ order \in Listings(files)
     /\ memory_cache' = [memory_cache EXCEPT ![p] = SweepMemory(memory_cache[p], m, now)]
     /\ files' = r.files
     /\ last' = [Call("clear", p, NONE, NONE, m, io, r.exc,
                      IF r.exc = "none" THEN n0 + r.n ELSE 0)
                  EXCEPT !.removed = Removed(files, r.files)]
     /\ UNCHANGED <<now, dirExists, lastSet>>

\* CacheManager(cache_dir) in a process that starts (again): os.makedirs with
\* exist_ok, then an empty memory tier; makedirs may fail when it has to create.
Construct(p, io) ==
  IF ~dirExists /\ io # NoFault
    THEN /\ last' = Call("construct", p, NONE, NONE, 0, io, "OSError", 0)
         /\ UNCHANGED <<now, memory_cache, files, dirExists, lastSet>>
    ELSE /\ dirExists' = TRUE
         /\ memory_cache' = [memory_cache EXCEPT ![p] = [k \in Keys |-> NoEntry]]
         /\ last' = Call("construct", p, NONE, NONE, 0, io, "none", 0)
         /\ UNCHANGED <<now, files, lastSet>>

\* Something other than set leaves <k>.json holding content that is not a
\* well-formed entry.
Corrupt(k, f) ==
  /\ dirExists
  /\ files' = [files EXCEPT ![k] = f]
  /\ last' = Env("corrupt", k, f.kind)
  /\ UNCHANGED <<now, memory_cache, dirExists, lastSet>>

Garbages(t) == {Garbage(kind) : kind \in GarbageKinds} \cup {NoData(ts) : ts \in 0..t}

\* The cache directory is removed, with the files in it.
RemoveDir ==
  /\ dirExists
  /\ dirExists' = FALSE
  /\ files' = [k \in Keys |-> NoEntry]
  /\ last' = Env("rmdir", NONE, NONE)
  /\ UNCHANGED <<now, memory_cache, lastSet>>

\* _generate_key raises TypeError in get or set, before anything is touched.
KeyTypeError(op, p, v) ==
  /\ last' = Call(op, p, NONE, v, 0, NoFault, "TypeError", 0)
  /\ UNCHANGED <<now, memory_cache, files, dirExists, lastSet>>

\* get(key_data) in process p: the key is derived first.
KeyedGet(p, d) ==
  /\ keyData' = [cur |-> d, prev |-> keyData.cur]
  /\ IF KeySerializable(d) THEN Get(p, GenerateKey(d), NoFault)
                           ELSE KeyTypeError("get", p, NONE)

\* set(key_data, value) in process p: the key is derived first.
KeyedSet(p, d, v) ==
  /\ keyData' = [cur |-> d, prev |-> keyData.cur]
  /\ IF KeySerializable(d) THEN Set(p, GenerateKey(d), v, NoFault)
                           ELSE KeyTypeError("set", p, v)

\* The operations of the cache directory alone: nothing else changes.
CacheOnly == UNCHANGED <<keyData, sibling, fd, blocks, passed, tree, codeCache, run, appVars>>

\* ------------------------------------------------------------ directories
\* Two cache directories side by side, ~/.jarvis/cache/openai (files) and
\* ~/.jarvis/cache/assistants (sibling), and the directory each process has
\* constructed its CacheManager on.
Dirs == {"openai", "assistants"}

CacheDirOf == [p \in Procs |-> IF p = "A" THEN "openai" ELSE "assistants"]

\* Mutant: the file name alone, resolved in one directory whatever cache_dir is.
CachePath_Shared(dir, key) == [dir |-> "openai", name |-> key]

\* _get_cache_path(key): os.path.join(self.cache_dir, f"{key}.json")
CachePath(dir, key) == [dir |-> dir, name |-> key]

\* The files of a directory, and a directory written back.
DirFiles(dir) == IF dir = "openai" THEN files ELSE sibling

WriteDir(dir, fs) ==
  /\ files' = IF dir = "openai" THEN fs ELSE files
  /\ sibling' = IF dir = "openai" THEN sibling ELSE fs

\* get(k) of the CacheManager process p has on directory dir.
DirGet(p, dir, k) ==
  LET path == CachePath(dir, k)
      f == DirFiles(path.dir)[path.name]
      m == memory_cache[p][k]
      r == GetOutcome(m, f, now, NoFault)
      same == last.proc = p /\ last.key = k
  IN /\ memory_cache' = [memory_cache EXCEPT ![p][k] = r.mem]
     /\ WriteDir(path.dir, [DirFiles(path.dir) EXCEPT ![path.name] = r.file])
     /\ last' = Op("get", p, k, NONE, 0, NoFault, r.ret, r.exc, 0, r.tier, r.seen,
                   m.kind # "absent" /\ ~MemFresh(m, now),
                   IF same /\ last.op = "set" THEN last.val ELSE NONE,
                   same /\ last.op = "get" /\ last.ret = NONE /\ last.exc = "none")
     /\ UNCHANGED <<now, dirExists, lastSet, keyData, fd, blocks, passed,
                    tree, codeCache, run, appVars>>

\* set(k, v) of the CacheManager process p has on directory dir.
DirSet(p, dir, k, v) ==
  LET path == CachePath(dir, k)
      f == DirFiles(path.dir)[path.name]
  IN /\ memory_cache' = [memory_cache EXCEPT ![p][k] = SetEntry(v, now)]
     /\ WriteDir(path.dir, [DirFiles(path.dir) EXCEPT
                              ![path.name] = SetFile(v, f, now, NoFault, TRUE)])
     /\ last' = Call("set", p, k, v, 0, NoFault, SetExc(v, NoFault, TRUE), 0)
     /\ UNCHANGED <<now, dirExists, lastSet, keyData, fd, blocks, passed,
                    tree, codeCache, run, appVars>>

\* clear(arg) of the CacheManager process p has on directory dir:
\* os.listdir(self.cache_dir), each name joined to self.cache_dir.
DirClear(p, dir, arg, order) ==
  LET m == Threshold(arg)
      n0 == Cardinality(SweptKeys(memory_cache[p], m, now))
      r == SweepFiles(order, DirFiles(dir), m, now, NoFault)
  IN /\ order \in Listings(DirFiles(dir))
     /\ memory_cache' = [memory_cache EXCEPT ![p] = SweepMemory(memory_cache[p], m, now)]
     /\ WriteDir(dir, r.files)
     /\ last' = Call("clear", p, NONE, NONE, m, NoFault, r.exc,
                     IF r.exc = "none" THEN n0 + r.n ELSE 0)
     /\ UNCHANGED <<now, dirExists, lastSet, keyData, fd, blocks, passed,
                    tree, codeCache, run, appVars>>

\* ------------------------------------------------------------ set, step by step
\* set(k, v) in process p up to open(cache_path, "w"): the memory tier is
\* written, the file is created or truncated.
SetOpen(p, k, v) ==
  /\ fd[p].pos = 0
  /\ memory_cache' = [memory_cache EXCEPT ![p][k] = SetEntry(v, now)]
  /\ fd' = [fd EXCEPT ![p] = Opened(k, v, now)]
  /\ blocks' = [blocks EXCEPT ![k] = NoBlocks]
  /\ files' = [files EXCEPT ![k] = ParseBlocks(NoBlocks, FALSE)]
  /\ passed' = [passed EXCEPT ![k] = @ \cup {v}]
  /\ last' = Call("open", p, k, v, 0, NoFault, "none", 0)
  /\ UNCHANGED <<now, dirExists, lastSet, keyData, sibling, tree, codeCache, run, appVars>>

\* json.dump in process p writes its next block, at its own offset; after the
\* last block the file is closed and set returns. A file that was deleted
\* meanwhile is written without a name.
SetDump(p, fit) ==
  LET w == fd[p]
      k == w.key
      b == IF w.pos = 1 THEN [blocks[k] EXCEPT !.b1 = Block(w.ts, w.val)]
                        ELSE [blocks[k] EXCEPT !.b2 = Block(w.ts, w.val)]
  IN /\ w.pos > 0
     /\ IF w.linked
          THEN /\ blocks' = [blocks EXCEPT ![k] = b]
               /\ files' = [files EXCEPT ![k] = ParseBlocks(b, fit)]
          ELSE UNCHANGED <<blocks, files>>
     /\ IF w.pos = 1
          THEN /\ fd' = [fd EXCEPT ![p].pos = 2]
               /\ last' = Call("write", p, k, w.val, 0, NoFault, "none", 0)
               /\ UNCHANGED lastSet
          ELSE /\ fd' = [fd EXCEPT ![p] = Closed]
               /\ last' = Call("set", p, k, w.val, 0, NoFault, "none", 0)
               /\ lastSet' = [lastSet EXCEPT ![k] =
                               [done |-> TRUE, at |-> w.ts, val |-> w.val, write |-> "ok"]]
     /\ UNCHANGED <<now, memory_cache, dirExists, keyData, sibling, passed,
                    tree, codeCache, run, appVars>>

\* A file that get or clear deleted has no blocks under its name any more, and
\* a set that has it open goes on writing the deleted file.
Unlink ==
  /\ blocks' = [k \in Keys |-> IF files'[k].kind = "absent" THEN NoBlocks ELSE blocks[k]]
  /\ fd' = [p \in Procs |->
              IF fd[p].pos > 0 /\ files'[fd[p].key].kind = "absent"
                THEN [fd[p] EXCEPT !.linked = FALSE]
                ELSE fd[p]]

\* get and clear of a process that is not inside set, taken in one step.
RaceGet(p, k) ==
  /\ fd[p].pos = 0
  /\ Get(p, k, NoFault)
  /\ Unlink
  /\ UNCHANGED <<keyData, sibling, passed, tree, codeCache, run, appVars>>

RaceClear(p, arg, order) ==
  /\ fd[p].pos = 0
  /\ Clear(p, arg, NoFault, order)
  /\ Unlink
  /\ UNCHANGED <<keyData, sibling, passed, tree, codeCache, run, appVars>>

\* ------------------------------------------------------------ code analysis
\* What the cache and its clock leave alone.
cacheVars ==
  <<memory_cache, files, dirExists, lastSet, last, keyData, sibling, fd, blocks, passed>>

\* A file of the tree is written and saved: created or replaced, its
\* modification time the time of the save.
Save(path, text) ==
  /\ tree.isdir
  /\ tree' = [tree EXCEPT !.files[path] = File(now, text)]
  /\ UNCHANGED <<now, cacheVars, codeCache, run, appVars>>

\* A file of the tree is deleted.
Delete(path) ==
  /\ tree.files[path].kind # "absent"
  /\ tree' = [tree EXCEPT !.files[path] = NoFile]
  /\ UNCHANGED <<now, cacheVars, codeCache, run, appVars>>

\* A link to nothing is made under a Python file name.
Link(path) ==
  /\ tree.isdir
  /\ tree.files[path].kind = "absent"
  /\ tree' = [tree EXCEPT !.files[path] = Broken]
  /\ UNCHANGED <<now, cacheVars, codeCache, run, appVars>>

\* The directory is removed with all in it, or made again, empty.
RemoveTree ==
  /\ tree.isdir
  /\ tree' = NoTree
  /\ UNCHANGED <<now, cacheVars, codeCache, run, appVars>>

MakeTree ==
  /\ ~tree.isdir
  /\ tree' = [tree EXCEPT !.isdir = TRUE]
  /\ UNCHANGED <<now, cacheVars, codeCache, run, appVars>>

\* _generate_cache_key(directory) is computed.
ComputeKey ==
  /\ run' = [NoRun EXCEPT !.op = "key", !.key = GenerateCacheKey(tree), !.tree = tree]
  /\ UNCHANGED <<now, cacheVars, tree, codeCache, appVars>>

\* The file of the code analysis cache named by a fingerprint.
CacheFile(key) == IF key \in DOMAIN codeCache THEN codeCache[key] ELSE NoEntry

\* persistent_cached_analyze_code(directory): the fingerprint, a CacheManager
\* made on ~/.jarvis/cache/code_analysis (its memory tier empty), get; the
\* cached result if there is one, else analyze_project and set.
CachedAnalyze ==
  LET key == GenerateCacheKey(tree)
      got == GetOutcome(NoEntry, CacheFile(key), now, NoFault)
      hit == HasCacheManager /\ Truthy(got.ret)
      result == AnalyzeProject(tree)
      stored == SetFile(result, got.file, now, NoFault, TRUE)
  IN /\ run.calls < MaxCalls
     /\ run' = [op |-> "analyze", calls |-> run.calls + 1, key |-> key, tree |-> tree,
                ret |-> IF hit THEN got.ret ELSE result,
                analyses |-> IF hit THEN 0 ELSE 1, hit |-> hit,
                prevKey |-> run.key, prevRet |-> run.ret]
     /\ codeCache' = IF hit \/ ~HasCacheManager THEN codeCache
                     ELSE (key :> stored) @@ codeCache
     /\ UNCHANGED <<now, cacheVars, tree, appVars>>

\* The clock, for the code analysis.
CodeTick ==
  /\ now < MaxTime
  /\ now' = now + 1
  /\ UNCHANGED <<cacheVars, tree, codeCache, run, appVars>>

\* ------------------------------------------------------------ send_message
\* OpenAIClient.send_message(content, image_path) for a text that is no
\* GitHub query, in a process whose client is on the thread t1
\* (JARVIS_THREAD_ID).
Question == "q1"

\* How the exchange with the service ends: the run completes and the first
\* assistant message holds a text (which may be the empty string), the run
\* completes without an assistant text, the run fails, or the client raises.
Answers == {"answer", ""}

Exchanges == Answers \cup {"no reply", "run failed", "raised"}

\* if cached_response: return cached_response
CachedResponse(g) == Truthy(g.ret)

\* What send_message returns after the exchange x.
Response(x) ==
  CASE x \in Answers -> x
    [] x = "no reply" -> "Nenhuma resposta recebida."
    [] x = "run failed" -> "Erro: last_error"
    [] x = "raised" -> "Erro: exception"

\* self.cache's key of a request: _generate_key(cache_key), for the texts
\* the requests of the model come with.
RequestKey == [content \in {Question, ""} |-> GenerateKey(CacheKeyOf(content))]

\* The image a request may come with: none, a file that exists, a path
\* where there is no file.
Images == {NONE, "pic.jpg", "missing.jpg"}

\* os.path.exists(image_path)
ImageExists(image_path) == image_path = "pic.jpg"

\* Mutant: whatever send_message is about to return is stored.
Stores_Anything(keyed, x) == keyed

\* The response is stored when the request has a cache key (it has no
\* image) and the run completed with an assistant text: if cache_key:
\* self.cache.set(cache_key, response).
Stores(keyed, x) == keyed /\ x \in Answers

\* What send_message returns without posting anything: the image is
\* missing, or there is neither text nor image; NONE when it goes on.
EarlyReturn(content, image_path) ==
  IF Truthy(image_path) /\ ~ImageExists(image_path)
    THEN "Erro: Arquivo de imagem não encontrado"
  ELSE IF ~Truthy(image_path) /\ content = ""
    THEN "Erro: Nenhum conteúdo fornecido"
  ELSE NONE

\* send_message(content, image_path) in process p, the exchange with the
\* service ending as x if it takes place: without an image the cache is
\* asked first and its exception is not caught; a response found there is
\* returned; otherwise the message is posted and a run created, unless
\* there is nothing to post, and an assistant text is stored by cache.set
\* before it is returned.
SendRequest(p, content, image_path, x) ==
  LET k == RequestKey[content]
      keyed == ~Truthy(image_path)
      g == IF keyed THEN GetOutcome(memory_cache[p][k], files[k], now, NoFault)
           ELSE Outcome(memory_cache[p][k], files[k], NONE, "none", "none", NoEntry)
      hit == keyed /\ g.exc = "none" /\ CachedResponse(g)
      early == EarlyReturn(content, image_path)
      ask == g.exc = "none" /\ ~hit /\ early = NONE
      store == ask /\ Stores(keyed, x)
  IN /\ memory_cache' = [memory_cache EXCEPT ![p][k] =
                           IF store THEN SetEntry(Response(x), now) ELSE g.mem]
     /\ files' = [files EXCEPT ![k] =
                    IF store THEN SetFile(Response(x), g.file, now, NoFault, dirExists)
                    ELSE g.file]
     /\ lastSet' = IF store
                     THEN [lastSet EXCEPT ![k] =
                             [done |-> TRUE, at |-> now, val |-> Response(x),
                              write |-> SetWrite(Response(x), NoFault, dirExists)]]
                     ELSE lastSet
     /\ client' = [NoClient EXCEPT
                     !.proc = p, !.content = content, !.image = image_path,
                     !.posted = ask, !.ran = ask /\ x # "raised",
                     !.exchange = IF ask THEN x ELSE NONE,
                     !.ret = IF hit THEN g.ret
                             ELSE IF ask THEN Response(x)
                             ELSE IF g.exc = "none" THEN early ELSE NONE,
                     !.exc = g.exc, !.stored = store]
     /\ last' = Call("send_message", p, k, IF store THEN Response(x) ELSE NONE, 0,
                     NoFault, g.exc, 0)
     /\ UNCHANGED <<now, dirExists, keyData, sibling, fd, blocks, passed, tree,
                    codeCache, run, analysis, report, asm, conv, step, lru>>

\* send_message(content): image_path=None.
SendMessage(p, content, x) == SendRequest(p, content, NONE, x)

\* ------------------------------------------------------------ the run of send_message
\* send_message(Question) in process A, statement by statement from the
\* cache to the answer, and the run as the service takes it along.
\* The statuses a run has in the service; the last five are final.
RunStatuses ==
  {"queued", "in_progress", "requires_action", "cancelling",
   "completed", "failed", "cancelled", "expired", "incomplete"}

FinalStatuses == {"completed", "failed", "cancelled", "expired", "incomplete"}

\* The statuses a run may take after status s; send_message submits no
\* tool outputs, so a run that requires action expires or is cancelled.
RunMoves(s) ==
  CASE s = "queued" -> {"in_progress", "cancelling", "expired"}
    [] s = "in_progress" -> {"completed", "failed", "incomplete", "requires_action",
                             "cancelling", "expired"}
    [] s = "requires_action" -> {"cancelling", "expired"}
    [] s = "cancelling" -> {"cancelled"}
    [] OTHER -> {}

pollFrame ==
  UNCHANGED <<now, dirExists, keyData, sibling, fd, blocks, passed, tree,
              codeCache, run, analysis, report, asm, conv, step, lru>>

\* send_message up to the loop: the cache is asked; on a miss the message
\* is posted and the run created.
PollStart ==
  LET k == RequestKey[Question]
      g == GetOutcome(memory_cache["A"][k], files[k], now, NoFault)
      hit == g.exc = "none" /\ CachedResponse(g)
  IN /\ client.pc \in {"idle", "returned"}
     /\ memory_cache' = [memory_cache EXCEPT !["A"][k] = g.mem]
     /\ files' = [files EXCEPT ![k] = g.file]
     /\ client' = [NoClient EXCEPT
                     !.proc = "A", !.content = Question, !.exc = g.exc,
                     !.pc = IF g.exc = "none" /\ ~hit THEN "retrieve" ELSE "returned",
                     !.posted = g.exc = "none" /\ ~hit,
                     !.ran = g.exc = "none" /\ ~hit,
                     !.status = IF g.exc = "none" /\ ~hit THEN "queued" ELSE NONE,
                     !.ret = IF hit THEN g.ret ELSE NONE]
     /\ last' = Call("send_message", "A", k, NONE, 0, NoFault, g.exc, 0)
     /\ UNCHANGED lastSet
     /\ pollFrame

\* The service takes the run to its next status.
RunMove ==
  /\ client.pc \in {"retrieve", "sleep"}
  /\ \E s \in RunMoves(client.status) : client' = [client EXCEPT !.status = s]
  /\ UNCHANGED <<memory_cache, files, lastSet, last>>
  /\ pollFrame

\* run_status = runs.retrieve(...), which may raise, and the test of its
\* status: completed leaves the loop; failed, cancelled and expired return
\* the error; every other status goes on to time.sleep(1).
Retrieve ==
  /\ client.pc = "retrieve" /\ client.polls < MaxPolls
  /\ \E raised \in BOOLEAN :
       client' =
         IF raised
           THEN [client EXCEPT !.pc = "returned", !.exchange = "raised",
                               !.ret = Response("raised")]
         ELSE [client EXCEPT
                 !.seen = client.status, !.polls = @ + 1,
                 !.pc = IF client.status = "completed" THEN "list"
                        ELSE IF client.status \in {"failed", "cancelled", "expired"}
                          THEN "returned"
                        ELSE "sleep",
                 !.exchange = IF client.status \in {"failed", "cancelled", "expired"}
                                THEN "run failed" ELSE NONE,
                 !.ret = IF client.status \in {"failed", "cancelled", "expired"}
                           THEN Response("run failed") ELSE NONE]
  /\ UNCHANGED <<memory_cache, files, lastSet, last>>
  /\ pollFrame

\* time.sleep(1), and round the loop again.
Sleep ==
  /\ client.pc = "sleep"
  /\ client' = [client EXCEPT !.pc = "retrieve"]
  /\ UNCHANGED <<memory_cache, files, lastSet, last>>
  /\ pollFrame

\* After the loop: messages.list; the first assistant text is stored and
\* returned, or there is none.
ListMessages ==
  LET k == RequestKey[Question]
  IN /\ client.pc = "list"
     /\ \E x \in Answers \cup {"no reply"} :
          LET store == Stores(TRUE, x)
          IN /\ memory_cache' = [memory_cache EXCEPT !["A"][k] =
                                   IF store THEN SetEntry(Response(x), now) ELSE @]
             /\ files' = [files EXCEPT ![k] =
                            IF store THEN SetFile(Response(x), @, now, NoFault, dirExists)
                            ELSE @]
             /\ lastSet' = IF store
                             THEN [lastSet EXCEPT ![k] =
                                     [done |-> TRUE, at |-> now, val |-> Response(x),
                                      write |-> SetWrite(Response(x), NoFault, dirExists)]]
                             ELSE lastSet
             /\ client' = [client EXCEPT !.pc = "returned", !.exchange = x,
                                         !.ret = Response(x), !.stored = store]
     /\ UNCHANGED last
     /\ pollFrame

\* ------------------------------------------------------------ analyze_file
\* analyze_file(path), c being what is on disk at the path.
AnalyzeFileStep(path, c) ==
  /\ analysis' = [op |-> "analyze_file", path |-> path, file |-> c,
                  out |-> AnalyzeFile(path, c), listed |-> << >>]
  /\ UNCHANGED <<now, cacheVars, tree, codeCache, run, client, report, asm, conv, step, lru>>

\* top_level_functions of generate_file_context and generate_code_summary:
\* the functions of the analyzer whose name is not the name of a method of
\* any class of the file.
TopLevelFunctions(a) ==
  SelectSeq(a.functions,
            LAMBDA f : ~\E i \in DOMAIN a.classes :
                          \E j \in DOMAIN a.classes[i].methods :
                            a.classes[i].methods[j].name = f.name)

\* generate_file_context(analyzer, detailed=True) on the analyzer that
\* analyze_file returned: the functions it lists under "Funções:".
FileContextStep ==
  /\ analysis.op = "analyze_file"
  /\ analysis.out.found
  /\ analysis' = [analysis EXCEPT !.op = "generate_file_context",
                                  !.listed = TopLevelFunctions(analysis.out.analyzer)]
  /\ UNCHANGED <<now, cacheVars, tree, codeCache, run, client, report, asm, conv, step, lru>>

\* analyze_project(project_dir) on the tree as it is.
AnalyzeProjectStep ==
  /\ report' = [op |-> "analyze_project", tree |-> tree,
                result |-> AnalyzeProjectResult(tree)]
  /\ UNCHANGED <<now, cacheVars, tree, codeCache, run, client, analysis, asm, conv, step, lru>>

\* ------------------------------------------------------------ get_project_analysis
\* os.listdir(directory): the entries of the directory itself. The package
\* is one of them and does not end with .py; the files in it are not listed.
Listdir == <<"a.py", "l.py", "notes.txt">>

\* analyze_code(directory), as the list cached_analyze_code makes of it: the
\* functions and classes of every listed file that ends with .py and for
\* which analyze_file returns an analyzer; nothing if there is no directory.
RECURSIVE AnalyzeEntries(_, _)
AnalyzeEntries(fs, listing) ==
  IF listing = << >> THEN << >>
  ELSE LET path == Head(listing)
           out == AnalyzeFile(path, AtPath(fs[path]))
       IN (IF fs[path].kind # "absent" /\ EndsWithPy(path) /\ out.found
             THEN <<[functions |-> out.analyzer.functions,
                     classes |-> out.analyzer.classes]>>
             ELSE << >>) \o AnalyzeEntries(fs, Tail(listing))

AnalyzeCode(t) == IF ~t.isdir THEN << >> ELSE AnalyzeEntries(t.files, Listdir)

\* @lru_cache(maxsize=32) cached_analyze_code(directory): what was returned
\* for the directory before, whatever the directory holds now, else the
\* list of analyze_code.
CachedAnalyzeCode(t, cache) ==
  IF Directory \in DOMAIN cache THEN cache[Directory] ELSE AnalyzeCode(t)

\* sum(len(functions) for functions, _ in results) and the like for classes.
RECURSIVE SumLen(_, _)
SumLen(results, classes) ==
  IF results = << >> THEN 0
  ELSE Len(IF classes THEN Head(results).classes ELSE Head(results).functions)
         + SumLen(Tail(results), classes)

\* formatted_result of get_project_analysis
FormattedResult(results) ==
  [files |-> << >>, total_files |-> Len(results),
   total_functions |-> SumLen(results, FALSE),
   total_classes |-> SumLen(results, TRUE), total_imports |-> 0]

\* persistent_cached_analyze_code(directory) with the reports of
\* analyze_project: get(cache_key) on a CacheManager made for the call; a
\* fresh entry under the fingerprint is returned (its data is a report, a
\* dict with two keys, which is true), an expired one is removed;
\* otherwise analyze_project runs and set(cache_key, result) writes the
\* report, which holds dicts, lists, strings, numbers and None only and
\* comes back from json as it was written.
PersistentCachedAnalyzeCode(t, cache, time) ==
  LET key == GenerateCacheKey(t)
      f == IF key \in DOMAIN cache THEN cache[key] ELSE NoEntry
      got == GetOutcome(NoEntry, f, time, NoFault)
      hit == HasCacheManager /\ got.mem.kind = "entry"
      result == AnalyzeProjectResult(t)
  IN [key |-> key, hit |-> hit,
      ret |-> IF hit THEN got.mem.data ELSE result,
      cache |-> IF ~HasCacheManager THEN cache
                ELSE IF hit THEN cache
                ELSE (key :> Entry(time, result)) @@ cache]

\* get_project_analysis(directory, use_persistent_cache) on the tree as it is.
GetProjectAnalysis(use_persistent_cache) ==
  LET p == PersistentCachedAnalyzeCode(tree, codeCache, now)
      results == CachedAnalyzeCode(tree, lru)
  IN /\ run.calls < MaxCalls
     /\ run' = [NoRun EXCEPT !.op = IF use_persistent_cache
                                      THEN "persistent_cached_analyze_code"
                                      ELSE "cached_analyze_code",
                             !.calls = run.calls + 1, !.key = p.key, !.tree = tree,
                             !.hit = IF use_persistent_cache THEN p.hit
                                     ELSE Directory \in DOMAIN lru]
     /\ report' = [op |-> "get_project_analysis", tree |-> tree,
                   result |-> IF use_persistent_cache THEN p.ret
                              ELSE FormattedResult(results)]
     /\ codeCache' = IF use_persistent_cache THEN p.cache ELSE codeCache
     /\ lru' = IF use_persistent_cache THEN lru ELSE (Directory :> results) @@ lru
     /\ UNCHANGED <<now, cacheVars, tree, client, analysis, asm, conv, step>>

\* ------------------------------------------------------------ prompts
\* The lists of up to n entries taken from a set.
SeqsUpTo(S, n) == UNION {[1..k -> S] : k \in 0..n}

\* The entries and questions the prompt is assembled from: a function
\* without docstring and one with a docstring of 400 characters; a class,
\* and a short string in the place of one; a short question and a long one.
PromptFunctions ==
  {Info("function", "bar", 0, 0, {"bar"}), Info("function", "baz", 400, 0, {})}

PromptClasses == {Info("class", "Foo", 0, 1, {}), Other("txt", 40)}

Questions == {Query("bar?", 8, {"bar"}), Query("long question", 40000, {"bar"})}

\* The arguments of a call of generate_prompt_for_openai.
PromptInputs ==
  {[NoPrompt EXCEPT !.op = "input", !.functions = functions, !.classes = classes,
                    !.question = user_question] :
     functions \in SeqsUpTo(PromptFunctions, max_functions + 1),
     classes \in SeqsUpTo(PromptClasses, max_classes + 1),
     user_question \in Questions}

\* The calls of process_query_with_context: the analysis of the directory
\* holds up to two files, each with up to two functions and at most one
\* class; there is a client or not.
QueryInputs ==
  LET FileData(path) ==
        {[path |-> path, functions |-> functions, classes |-> classes] :
           functions \in SeqsUpTo(PromptFunctions, 2),
           classes \in SeqsUpTo({Info("class", "Foo", 0, 1, {"bar"})}, 1)}
  IN {[NoPrompt EXCEPT !.op = "query", !.files = files_, !.question = user_question,
                       !.client = hasClient] :
        files_ \in {<< >>} \cup {<<a>> : a \in FileData("a.py")}
                   \cup {<<a, b>> : a \in FileData("a.py"), b \in FileData("pkg/b.py")},
        user_question \in Questions,
        hasClient \in BOOLEAN}

\* process_query_with_context(directory, user_question, openai_client)
ProcessQueryStep ==
  /\ asm.op = "query"
  /\ LET r == ProcessQuery(asm.files, asm.question, asm.client)
     IN asm' = [asm EXCEPT !.op = "process_query", !.out = r.out, !.exc = r.exc,
                           !.ranked = r.ranked, !.sent = r.sent, !.ret = r.ret]
  /\ UNCHANGED <<now, cacheVars, tree, codeCache, run, client, analysis, report, conv, step, lru>>

\* generate_prompt_for_openai(functions, classes, user_question)
GeneratePromptStep ==
  /\ asm.op = "input"
  /\ asm' = [asm EXCEPT !.op = "generate_prompt",
                        !.out = GeneratePrompt(asm.functions, asm.classes, asm.question)]
  /\ UNCHANGED <<now, cacheVars, tree, codeCache, run, client, analysis, report, conv, step, lru>>

\* ------------------------------------------------------------ run_conversation
\* JarvisInterface.run_conversation(with_voice) with the AudioHandler it was
\* given. conv.pc is the call the method is at, conv.sp how far a speak in
\* progress has come; a KeyboardInterrupt may arrive at every one of them.
convFrame ==
  UNCHANGED <<now, cacheVars, tree, codeCache, run, client, analysis, report, asm,
              step, lru>>

\* The calls of self.audio_handler.speak in run_conversation.
SpeakSites == {"greeting", "apology", "goodbye", "respond", "farewell", "error"}

\* Where run_conversation goes on when the speak at a site returns: the
\* greeting, an apology, a response and the error notice lead (back) to the
\* head of the loop, "Até logo!" to break and with it to finally.
AfterSpeak(site) ==
  IF site \in {"goodbye", "farewell"} THEN "cleanup" ELSE "listen"

\* Where a KeyboardInterrupt raised at a site is handled: inside the loop's
\* try by the loop's handler, in the greeting and in either handler of the
\* loop by the handler of the outer try; raised in that one, or on the way
\* out, it leaves run_conversation through finally.
Handles(site) ==
  CASE site \in {"listen", "apology", "goodbye", "send", "respond"} -> "farewell"
    [] site \in {"greeting", "farewell", "error"} -> "outer"
    [] site = "outer" -> "cleanup"

\* The calls of run_conversation: by voice or by text, the handler in text
\* mode or not, the mixer initialised by initialize_audio or not.
Conversations ==
  {[NoConversation EXCEPT !.pc = "greeting", !.sp = "call", !.with_voice = v,
                          !.text_only = t, !.mixer = m] :
     v \in BOOLEAN, t \in BOOLEAN, m \in BOOLEAN}

\* speak returns to run_conversation.
Returned(c) == [c EXCEPT !.pc = AfterSpeak(c.pc), !.sp = "none", !.blank = FALSE]

\* AudioHandler.speak(text) up to the audio it asks for: in text mode, or
\* for a text that is blank, it logs the text and returns; otherwise
\* the speech is requested, and an exception of the request is logged.
Speak ==
  /\ conv.pc \in SpeakSites /\ conv.sp = "call"
  /\ \E ok \in BOOLEAN :
       conv' = IF conv.text_only \/ conv.blank \/ ~ok
                 THEN Returned(conv)
                 ELSE [conv EXCEPT !.sp = "play"]
  /\ convFrame

\* The playback of speak: pygame.mixer.music.load and play, which raise
\* pygame.error (logged by speak) without a mixer; the wait until
\* get_busy() is false; after a KeyboardInterrupt in the wait,
\* pygame.mixer.music.stop() and the exception raised again.
Playback ==
  /\ conv.pc \in SpeakSites
  /\ \/ /\ conv.sp = "play"
        /\ conv' = IF conv.mixer
                     THEN [conv EXCEPT !.sp = "wait", !.playing = TRUE]
                     ELSE Returned(conv)
     \/ /\ conv.sp = "wait"
        /\ conv' = Returned([conv EXCEPT !.playing = FALSE])
     \/ /\ conv.sp = "stop"
        /\ conv' = [conv EXCEPT !.pc = Handles(conv.pc), !.sp = "none",
                                !.blank = FALSE, !.playing = FALSE]
  /\ convFrame

\* The head of the loop: self.audio_handler.listen() or input("Você: ").
\* listen returns the text heard or one of its error codes; input raises
\* EOFError at the end of the input; a text that asks to leave is answered
\* with "Até logo!".
Listen ==
  /\ conv.pc = "listen" /\ conv.listens < MaxTurns
  /\ \E heard \in {"text", "sair"} \cup
                  (IF conv.with_voice THEN {"SPEECH_NOT_RECOGNIZED", "SPEECH_ERROR"}
                   ELSE {"EOFError"}) :
       conv' = [conv EXCEPT
                  !.listens = @ + 1,
                  !.pc = CASE heard = "text" -> "send"
                           [] heard = "sair" -> "goodbye"
                           [] heard = "EOFError" -> "error"
                           [] OTHER -> "apology",
                  !.sp = IF heard = "text" THEN "none" ELSE "call"]
  /\ convFrame

\* response = self.openai_client.send_message(user_input), or
\* process_github_query(user_input), which may raise; the response, which
\* may be blank, is spoken.
Send ==
  /\ conv.pc = "send"
  /\ \E response \in {"answer", "", "raised"} :
       conv' = [conv EXCEPT
                  !.sends = @ + 1,
                  !.pc = IF response = "raised" THEN "error" ELSE "respond",
                  !.sp = "call",
                  !.blank = response = ""]
  /\ convFrame

\* except KeyboardInterrupt in the loop: the handler is put in text mode
\* and speak("Até logo!") called.
Farewell ==
  /\ conv.pc = "farewell" /\ conv.sp = "none"
  /\ conv' = [conv EXCEPT !.text_only = TRUE, !.sp = "call"]
  /\ convFrame

\* except KeyboardInterrupt of the outer try: two lines are logged.
Outer ==
  /\ conv.pc = "outer"
  /\ conv' = [conv EXCEPT !.pc = "cleanup"]
  /\ convFrame

\* finally: self.audio_handler.cleanup(), which asks pygame.mixer.get_init()
\* and calls pygame.mixer.quit() if there is a mixer; then run_conversation
\* returns, or raises the exception on its way out.
Cleanup ==
  /\ \/ /\ conv.pc = "cleanup"
        /\ conv' = IF conv.mixer
                     THEN [conv EXCEPT !.pc = "quit"]
                     ELSE [conv EXCEPT !.cleaned = TRUE,
                             !.pc = IF conv.pending THEN "raised" ELSE "returned"]
     \/ /\ conv.pc = "quit"
        /\ conv' = [conv EXCEPT !.mixer = FALSE, !.playing = FALSE, !.cleaned = TRUE,
                                !.pc = IF conv.pending THEN "raised" ELSE "returned"]
  /\ convFrame

\* A KeyboardInterrupt arrives while run_conversation runs. In the wait of
\* speak (inside its try) it is caught there, outside it (after play()
\* has returned, or in the handler before stop()) it leaves speak with the
\* music playing; in cleanup it leaves run_conversation at once.
Interrupt ==
  /\ conv.pc \notin {"idle", "returned", "raised"}
  /\ conv.interrupts < MaxInterrupts
  /\ \/ /\ conv.sp = "wait"
        /\ conv' = [conv EXCEPT !.interrupts = @ + 1, !.sp = "stop"]
     \/ /\ conv.pc \notin {"cleanup", "quit", "outer"}
        /\ conv' = [conv EXCEPT !.interrupts = @ + 1, !.pc = Handles(conv.pc),
                                !.sp = "none", !.blank = FALSE]
     \/ /\ conv.pc = "outer"
        /\ conv' = [conv EXCEPT !.interrupts = @ + 1, !.pc = "cleanup",
                                !.pending = TRUE]
     \/ /\ conv.pc \in {"cleanup", "quit"}
        /\ conv' = [conv EXCEPT !.interrupts = @ + 1, !.pc = "raised"]
  /\ convFrame

\* ------------------------------------------------------------ get, set and clear, statement by statement
\* The operations of CacheManager on the key k1, each file-system call a
\* step of its own, so that the calls of another process fall in between.
stepFrame ==
  UNCHANGED <<dirExists, last, keyData, sibling, fd, blocks, passed, tree,
              codeCache, run, client, analysis, report, asm, conv, lru>>

StepKey == "k1"

\* An operation starts in a process that is in none.
Started(op, v, t) == [Idle EXCEPT !.op = op, !.val = v, !.ts = t]

\* Mutant: a file stays open when the block is left by an exception.
WithExit_Leaks(st, x) == IF x = "none" THEN [st EXCEPT !.handle = FALSE] ELSE st

\* with open(...) as f: the file is closed when the block is left, by its
\* end or by an exception.
WithExit(st, x) == [st EXCEPT !.handle = FALSE]

\* The operation is over: it has returned r or raised x.
Over(st, r, x) == [st EXCEPT !.at = "idle", !.ret = r, !.exc = x]

\* open(path): the file is open and is the one under the name.
Open(st) == [st EXCEPT !.handle = TRUE, !.linked = TRUE, !.opened = TRUE]

\* What a process reads from the file it has open: the content under the
\* name, or what the file held when it was removed from the directory.
Content(st) == IF st.linked THEN files[StepKey] ELSE st.seen

\* os.remove(path) by process p: the name is gone; the processes that have
\* the file open keep it, as it was.
Unlinked(st, p) ==
  [q \in Procs |->
     IF q # p /\ st[q].handle /\ st[q].linked
       THEN [st[q] EXCEPT !.linked = FALSE, !.seen = files[StepKey]]
       ELSE st[q]]

\* The steps share this shape: process p goes on as st, the file is left
\* alone or removed by p.
Goes(p, st) ==
  /\ step' = [step EXCEPT ![p] = st]
  /\ UNCHANGED <<files, memory_cache, lastSet, now>>

Removes(p, st) ==
  /\ step' = Unlinked([step EXCEPT ![p] = st], p)
  /\ files' = [files EXCEPT ![StepKey] = NoEntry]
  /\ UNCHANGED <<memory_cache, lastSet, now>>

\* CacheManager.get in process p, one statement at a time: the memory tier
\* (lines 77-82), os.path.exists (86), open (88), json.load and the age
\* (89-95), os.remove of an expired file (98), and the except clause:
\* os.path.exists (101) and os.remove (102).
GetAt(p) ==
  LET st == step[p]
      m == memory_cache[p][StepKey]
      f == files[StepKey]
  IN \/ /\ st.at = "idle"
        /\ IF m.kind # "absent" /\ MemFresh(m, now)
             THEN /\ step' = [step EXCEPT ![p] = Over(Started("get", NONE, now), m.data, "none")]
                  /\ UNCHANGED memory_cache
             ELSE /\ step' = [step EXCEPT ![p] = [Started("get", NONE, now) EXCEPT !.at = "exists"]]
                  /\ memory_cache' = [memory_cache EXCEPT ![p][StepKey] = NoEntry]
        /\ UNCHANGED <<files, lastSet, now>>
     \/ /\ st.op = "get" /\ st.at = "exists"
        /\ Goes(p, IF f.kind = "absent" THEN Over(st, NONE, "none")
                   ELSE [st EXCEPT !.at = "open"])
     \/ /\ st.op = "get" /\ st.at = "open"
        /\ Goes(p, IF f.kind = "absent" THEN [st EXCEPT !.at = "handler"]
                   ELSE [Open(st) EXCEPT !.at = "load"])
     \/ /\ st.op = "get" /\ st.at = "load"
        /\ LET c == Content(st)
           IN IF c.kind = "entry" /\ FileFresh(c, now)
                THEN /\ step' = [step EXCEPT ![p] = Over(WithExit(st, "none"), c.data, "none")]
                     /\ memory_cache' = [memory_cache EXCEPT ![p][StepKey] = Promote(c)]
                ELSE /\ step' = [step EXCEPT ![p] =
                                   IF c.kind = "entry"
                                     THEN [WithExit(st, "none") EXCEPT !.at = "remove"]
                                     ELSE [WithExit(st, "JSONDecodeError") EXCEPT !.at = "handler"]]
                     /\ UNCHANGED memory_cache
        /\ UNCHANGED <<files, lastSet, now>>
     \/ /\ st.op = "get" /\ st.at = "remove"
        /\ IF f.kind = "absent" THEN Goes(p, [st EXCEPT !.at = "handler"])
           ELSE Removes(p, Over(st, NONE, "none"))
     \/ /\ st.op = "get" /\ st.at = "handler"
        /\ Goes(p, IF f.kind = "absent" THEN Over(st, NONE, "none")
                   ELSE [st EXCEPT !.at = "handler remove"])
     \/ /\ st.op = "get" /\ st.at = "handler remove"
        /\ IF f.kind = "absent" THEN Goes(p, Over(st, NONE, "FileNotFoundError"))
           ELSE Removes(p, Over(st, NONE, "none"))

\* CacheManager.set(k1, v) in process p: the memory tier and open(path, "w"),
\* which creates the file or empties it (lines 115-126); then json.dump and
\* the end of the with block (127): the entry is in the file the process has
\* open, or TypeError is raised with the file cut short.
SetAt(p, v) ==
  LET st == step[p]
  IN \/ /\ st.at = "idle"
        /\ step' = [step EXCEPT ![p] = [Open(Started("set", v, now)) EXCEPT !.at = "dump"]]
        /\ memory_cache' = [memory_cache EXCEPT ![p][StepKey] = SetEntry(v, now)]
        /\ files' = [files EXCEPT ![StepKey] = Garbage("badjson")]
        /\ lastSet' = [lastSet EXCEPT ![StepKey] = NeverSet]
        /\ UNCHANGED now
     \/ /\ st.op = "set" /\ st.at = "dump" /\ v = st.val
        /\ LET x == IF Serializable(v) THEN "none" ELSE "TypeError"
           IN /\ step' = [step EXCEPT ![p] = Over(WithExit(st, x), NONE, x)]
              /\ files' = IF st.linked /\ x = "none"
                            THEN [files EXCEPT ![StepKey] = Entry(st.ts, JsonRoundTrip(v))]
                            ELSE files
              /\ lastSet' = IF x = "none"
                              THEN [lastSet EXCEPT ![StepKey] =
                                      [done |-> TRUE, at |-> st.ts, val |-> v, write |-> "ok"]]
                              ELSE lastSet
        /\ UNCHANGED <<memory_cache, now>>

\* CacheManager.clear() in process p: the memory tier is swept and the
\* directory listed (lines 146-157); for the file listed: open (163),
\* json.load and the age at the time clear started (164-166), os.remove
\* (167), and the except clause with its own os.remove (171-175).
ClearAt(p) ==
  LET st == step[p]
      f == files[StepKey]
  IN \/ /\ st.at = "idle"
        /\ step' = [step EXCEPT ![p] =
                      IF f.kind = "absent" THEN Over(Started("clear", NONE, now), NONE, "none")
                      ELSE [Started("clear", NONE, now) EXCEPT !.at = "open"]]
        /\ memory_cache' = [memory_cache EXCEPT ![p] = SweepMemory(memory_cache[p], TTL, now)]
        /\ UNCHANGED <<files, lastSet, now>>
     \/ /\ st.op = "clear" /\ st.at = "open"
        /\ Goes(p, IF f.kind = "absent" THEN [st EXCEPT !.at = "handler"]
                   ELSE [Open(st) EXCEPT !.at = "load"])
     \/ /\ st.op = "clear" /\ st.at = "load"
        /\ LET c == Content(st)
           IN Goes(p, IF c.kind # "entry"
                        THEN [WithExit(st, "JSONDecodeError") EXCEPT !.at = "handler"]
                      ELSE IF FileExpired(c, TTL, st.ts)
                        THEN [WithExit(st, "none") EXCEPT !.at = "remove"]
                      ELSE Over(WithExit(st, "none"), NONE, "none"))
     \/ /\ st.op = "clear" /\ st.at = "remove"
        /\ IF f.kind = "absent" THEN Goes(p, [st EXCEPT !.at = "handler"])
           ELSE Removes(p, Over(st, NONE, "none"))
     \/ /\ st.op = "clear" /\ st.at = "handler"
        /\ IF f.kind = "absent" THEN Goes(p, Over(st, NONE, "none"))
           ELSE Removes(p, Over(st, NONE, "none"))

\* A KeyboardInterrupt reaches process p inside an operation: it leaves
\* the with block, if it is in one, and the operation.
StepInterrupt(p) ==
  /\ step[p].at # "idle"
  /\ Goes(p, Over(WithExit(step[p], "KeyboardInterrupt"), NONE, "KeyboardInterrupt"))

\* The clock, between the steps.
StepTick ==
  /\ now < MaxTime
  /\ now' = now + 1
  /\ UNCHANGED <<step, files, memory_cache, lastSet>>

\* ------------------------------------------------------------ specifications
\* Two processes on one key, serialisable values, a file system without faults.
Next ==
  \/ /\ Tick
     /\ CacheOnly
  \/ /\ \E p \in Procs : Get(p, "k1", NoFault)
     /\ CacheOnly
  \/ /\ \E p \in Procs, v \in Values : Set(p, "k1", v, NoFault)
     /\ CacheOnly
  \/ /\ \E p \in Procs, arg \in ClearArgs, order \in Listings(files) :
          Clear(p, arg, NoFault, order)
     /\ CacheOnly
  \/ /\ \E p \in Procs : Construct(p, NoFault)
     /\ CacheOnly
  \/ /\ \E f \in Garbages(now) : Corrupt("k1", f)
     /\ CacheOnly

Spec == Init /\ [][Next]_vars

\* One process on one key, values json may be unable to serialise, a file
\* system whose operations may fail and whose directory may go away.
NextFaults ==
  \/ /\ Tick
     /\ CacheOnly
  \/ /\ \E io \in GetFaults : Get("A", "k1", io)
     /\ CacheOnly
  \/ /\ \E v \in PyValues, io \in SetFaults : Set("A", "k1", v, io)
     /\ CacheOnly
  \/ /\ \E arg \in ClearArgs, io \in ClearFaults, order \in Listings(files) :
          Clear("A", arg, io, order)
     /\ CacheOnly
  \/ /\ \E io \in {NoFault, "mkdirfail"} : Construct("A", io)
     /\ CacheOnly
  \/ /\ \E f \in Garbages(now) : Corrupt("k1", f)
     /\ CacheOnly
  \/ /\ RemoveDir
     /\ CacheOnly

SpecFaults == Init /\ [][NextFaults]_vars

\* One process sweeping a directory of several files, without faults: set,
\* clear, the clock and garbage written into the files.
NextSweep ==
  \/ /\ Tick
     /\ CacheOnly
  \/ /\ \E k \in Keys : Set("A", k, "text", NoFault)
     /\ CacheOnly
  \/ /\ \E arg \in ClearArgs, order \in Listings(files) : Clear("A", arg, NoFault, order)
     /\ CacheOnly
  \/ /\ \E k \in Keys, f \in Garbages(now) : Corrupt(k, f)
     /\ CacheOnly

SpecSweep == Init /\ [][NextSweep]_vars

\* One process whose get and set are given key data: dicts built in either
\* order, some holding an object json cannot serialise.
NextKeys ==
  \/ /\ \E d \in KeyData : KeyedGet("A", d)
     /\ UNCHANGED <<sibling, fd, blocks, passed, tree, codeCache, run, appVars>>
  \/ /\ \E d \in KeyData, v \in Values : KeyedSet("A", d, v)
     /\ UNCHANGED <<sibling, fd, blocks, passed, tree, codeCache, run, appVars>>

SpecKeys == Init /\ [][NextKeys]_vars

\* Two processes, each with a CacheManager on its own directory, using the
\* same key.
NextNamespace ==
  \/ /\ Tick
     /\ CacheOnly
  \/ \E p \in Procs : DirGet(p, CacheDirOf[p], "k1")
  \/ \E p \in Procs, v \in Values : DirSet(p, CacheDirOf[p], "k1", v)
  \/ \E p \in Procs, arg \in ClearArgs :
       \E order \in Listings(DirFiles(CacheDirOf[p])) :
         DirClear(p, CacheDirOf[p], arg, order)
  \/ /\ \E p \in Procs : Construct(p, NoFault)
     /\ CacheOnly

SpecNamespace == Init /\ [][NextNamespace]_vars

\* Two processes on one key, set taken step by step: open, the blocks
\* json.dump writes, close; get and clear of the other process in between.
NextRace ==
  \/ \E p \in Procs, v \in Values : SetOpen(p, "k1", v)
  \/ \E p \in Procs, fit \in BOOLEAN : SetDump(p, fit)
  \/ \E p \in Procs : RaceGet(p, "k1")
  \/ \E p \in Procs, order \in Listings(files) :
       RaceClear(p, [given |-> FALSE, value |-> 0], order)
  \/ /\ \E p \in Procs : fd[p].pos = 0 /\ Construct(p, NoFault)
     /\ CacheOnly

SpecRace == Init /\ [][NextRace]_vars

\* The fingerprint of a tree whose files come, change and go.
NextFingerprint ==
  \/ CodeTick
  \/ \E text \in Texts : Save("a.py", text)
  \/ \E path \in {"notes.txt", "pkg/b.py"} : Save(path, "f")
  \/ \E path \in Paths : Delete(path)
  \/ Link("l.py")
  \/ RemoveTree
  \/ MakeTree
  \/ ComputeKey

SpecFingerprint == Init /\ [][NextFingerprint]_vars

\* The cached analysis of a tree in which one file is edited, beside a file
\* of a package.
NextAnalysis ==
  \/ CodeTick
  \/ \E text \in Texts : Save("a.py", text)
  \/ Save("pkg/b.py", "f")
  \/ Delete("a.py")
  \/ CachedAnalyze

SpecAnalysis == Init /\ [][NextAnalysis]_vars

\* Two processes on one thread sending the same question, the clock, and a
\* process starting again.
NextSend ==
  \/ /\ Tick
     /\ CacheOnly
  \/ \E p \in Procs, x \in Exchanges : SendMessage(p, Question, x)
  \/ /\ \E p \in Procs : Construct(p, NoFault)
     /\ CacheOnly

SpecSend == Init /\ [][NextSend]_vars

\* Requests of every kind in one process: the question or a blank text,
\* with an image, with the path of a missing image, or with none.
NextRequests ==
  \/ /\ Tick
     /\ CacheOnly
  \/ \E content \in {Question, ""}, image_path \in Images, x \in Exchanges :
       SendRequest("A", content, image_path, x)
  \/ /\ Construct("A", NoFault)
     /\ CacheOnly

SpecRequests == Init /\ [][NextRequests]_vars

\* send_message waiting for its run.
NextPoll ==
  \/ /\ Tick
     /\ CacheOnly
  \/ PollStart
  \/ RunMove
  \/ Retrieve
  \/ Sleep
  \/ ListMessages

SpecPoll == Init /\ [][NextPoll]_vars

\* analyze_file on whatever may be at a path, Python by its name or not, and
\* the context generated from its analyzer.
NextExtractor ==
  \/ \E path \in {"a.py", "notes.txt"}, c \in OnDisks : AnalyzeFileStep(path, c)
  \/ FileContextStep

SpecExtractor == Init /\ [][NextExtractor]_vars

\* get_project_analysis in both cache modes on a tree whose files are
\* edited between the calls, beside a file of a package.
NextUnified ==
  \/ CodeTick
  \/ \E text \in {"f", "g"} : Save("a.py", text)
  \/ Save("pkg/b.py", "f")
  \/ Delete("a.py")
  \/ \E use_persistent_cache \in BOOLEAN : GetProjectAnalysis(use_persistent_cache)

SpecUnified == Init /\ [][NextUnified]_vars

\* analyze_project on a tree whose files come, change and go, some of them
\* with a syntax error.
NextProject ==
  \/ \E path \in {"a.py", "pkg/b.py"}, text \in SourceTexts : Save(path, text)
  \/ Save("notes.txt", "f")
  \/ \E path \in Paths : Delete(path)
  \/ Link("l.py")
  \/ RemoveTree
  \/ MakeTree
  \/ AnalyzeProjectStep

SpecProject == Init /\ [][NextProject]_vars

\* Prompts assembled from lists longer than the limits, within and beyond
\* the token budget, and queries processed with the analysis of a directory.
NextPrompt ==
  \/ GeneratePromptStep
  \/ ProcessQueryStep

InitPrompt ==
  /\ InitCache
  /\ asm \in PromptInputs \cup QueryInputs
  /\ conv = NoConversation

SpecPrompt == InitPrompt /\ [][NextPrompt]_vars

\* A conversation by voice or by text, with KeyboardInterrupts.
NextConversation ==
  \/ Speak
  \/ Playback
  \/ Listen
  \/ Send
  \/ Farewell
  \/ Outer
  \/ Cleanup
  \/ Interrupt

InitConversation ==
  /\ InitCache
  /\ asm = NoPrompt
  /\ conv \in Conversations

SpecConversation == InitConversation /\ [][NextConversation]_vars

\* A single CacheManager on its directory, nothing else writing there and a
\* file system without faults; values json may be unable to serialise.
NextSingle ==
  \/ /\ Tick
     /\ CacheOnly
  \/ /\ \E k \in Keys : Get("A", k, NoFault)
     /\ CacheOnly
  \/ /\ \E k \in Keys, v \in PyValues : Set("A", k, v, NoFault)
     /\ CacheOnly
  \/ /\ \E arg \in ClearArgs, order \in Listings(files) : Clear("A", arg, NoFault, order)
     /\ CacheOnly

SpecSingle == Init /\ [][NextSingle]_vars

\* Two processes on one key, every operation taken statement by statement,
\* with KeyboardInterrupts.
NextSteps ==
  \/ /\ \E p \in Procs : GetAt(p)
     /\ stepFrame
  \/ /\ \E p \in Procs, v \in {"text", "handle"} : SetAt(p, v)
     /\ stepFrame
  \/ /\ \E p \in Procs : ClearAt(p)
     /\ stepFrame
  \/ /\ \E p \in Procs : StepInterrupt(p)
     /\ stepFrame
  \/ /\ StepTick
     /\ stepFrame

SpecSteps == Init /\ [][NextSteps]_vars

\* ------------------------------------------------------------ claims
\* The get step being taken, read in an action formula: its process, its key,
\* and the memory slot and file it starts from.
GetStep == last'.op = "get"

\* C1: round trip. A get(k) that directly follows set(k, v) in the same process
\* returns v, and raises nothing.
C1_RoundTrip ==
  (last.op = "get" /\ last.justSet # NONE)
    => (last.exc = "none" /\ last.ret = last.justSet)

C1_Witness ==
  /\ last.op = "get"
  /\ last.justSet = "tuple"
  /\ last.ret = "tuple"
  /\ last.tier = "memory"

\* C2: expiry. With the entry of set(k, v) at t0 in the process's memory tier,
\* no later set(k) and no garbage in the file, get(k) returns v at any time
\* before t0 + TTL and absent at any time after t0 + TTL.
C2_Expiry ==
  [][GetStep =>
       LET k == last'.key
           m == memory_cache[last'.proc][k]
       IN (/\ m.kind = "entry"
           /\ lastSet[k].done
           /\ lastSet[k].at = m.ts
           /\ files[k].kind \in {"absent", "entry"})
            => /\ now < m.ts + TTL => (last'.ret = m.data /\ last'.exc = "none")
               /\ now > m.ts + TTL => (last'.ret = NONE /\ last'.exc = "none")]_vars

C2_Witness ==
  /\ last.op = "get"
  /\ last.evicted
  /\ last.tier = "file"
  /\ last.seen.kind = "entry"
  /\ lastSet[last.key].done
  /\ last.seen.ts = lastSet[last.key].at
  /\ now > lastSet[last.key].at + TTL
  /\ last.ret = NONE
  /\ last.exc = "none"

\* The kinds of file content that are not a well-formed entry.
Malformed == GarbageKinds \cup {"nodata"}

\* C3: corruption self-heal. A get that reaches a file that is not a
\* well-formed entry returns absent, raises nothing, and leaves no file.
C3_SelfHeal ==
  [][GetStep =>
       LET k == last'.key
       IN (memory_cache[last'.proc][k].kind = "absent" /\ files[k].kind \in Malformed)
            => /\ last'.ret = NONE
               /\ last'.exc = "none"
               /\ files'[k].kind = "absent"]_vars

\* C4, as claimed: before expiry, a get(k) in a process with an empty memory
\* tier, on the file that set(k, v) wrote, returns v, leaves the file as it
\* is, and leaves the entry in the memory tier of the reader.
FreshReaderStep ==
  /\ GetStep
  /\ memory_cache[last'.proc][last'.key].kind = "absent"
  /\ lastSet[last'.key].done
  /\ files[last'.key].kind = "entry"
  /\ files[last'.key].ts = lastSet[last'.key].at
  /\ now - files[last'.key].ts < TTL

C4_Promotion_Claimed ==
  [][FreshReaderStep =>
       /\ last'.ret = lastSet[last'.key].val
       /\ last'.exc = "none"
       /\ files' = files
       /\ memory_cache'[last'.proc][last'.key] = files[last'.key]]_vars

\* C4, amended: the get returns what json.load gives for what json.dump wrote
\* for v (v itself when v is JSON-native, a list for a tuple), leaves the file
\* as it is, and leaves that entry, timestamp included, in the reader's memory.
C4_Promotion ==
  [][FreshReaderStep =>
       /\ last'.ret = JsonRoundTrip(lastSet[last'.key].val)
       /\ last'.exc = "none"
       /\ files' = files
       /\ memory_cache'[last'.proc][last'.key] = files[last'.key]]_vars

C4_Witness ==
  /\ last.op = "get"
  /\ last.tier = "file"
  /\ ~last.evicted
  /\ lastSet[last.key].done
  /\ lastSet[last.key].val = "tuple"
  /\ last.seen = Entry(lastSet[last.key].at, "list")
  /\ now > last.seen.ts
  /\ last.ret = "list"
  /\ files[last.key] = last.seen
  /\ memory_cache[last.proc][last.key] = last.seen

\* C5: no way back from stale. A get returns a value only while the last
\* set of the key is younger than TTL, and no entry of either tier carries a
\* timestamp later than the last set: a read never extends a lifetime.
C5_NoResurrection ==
  /\ (last.op = "get" /\ last.ret # NONE)
       => (lastSet[last.key].done /\ now - lastSet[last.key].at < TTL)
  /\ \A k \in Keys :
       /\ files[k].kind = "entry" => (lastSet[k].done /\ files[k].ts <= lastSet[k].at)
       /\ \A p \in Procs :
            memory_cache[p][k].kind = "entry"
              => (lastSet[k].done /\ memory_cache[p][k].ts <= lastSet[k].at)

\* A reader that promoted the entry after it was set finds it stale at the
\* set's age, not at the age of its own read.
C5_Witness ==
  /\ last.op = "get"
  /\ last.evicted
  /\ last.ret = NONE
  /\ last.exc = "none"
  /\ lastSet[last.key].done
  /\ now - lastSet[last.key].at = TTL
  /\ last.seen.kind = "entry"
  /\ last.seen.ts = lastSet[last.key].at

\* C6: tier-independent validity. Whichever tier holds the well-formed entry
\* that decides a get, the get returns the entry's value iff now - ts < TTL;
\* at age TTL exactly the entry is stale in the memory tier and in the file.
C6_TierIndependentValidity ==
  [][GetStep =>
       LET k == last'.key
           m == memory_cache[last'.proc][k]
           f == files[k]
           memStale == m.kind # "absent" /\ ~(now - m.ts < TTL)
       IN /\ (m.kind = "entry" /\ now - m.ts < TTL)
               => (last'.ret = m.data /\ last'.exc = "none")
          /\ ((m.kind = "absent" \/ memStale) /\ f.kind = "entry")
               => /\ last'.exc = "none"
                  /\ last'.ret = IF now - f.ts < TTL THEN f.data ELSE NONE
          /\ (m.kind = "entry" /\ memStale /\ f.kind = "absent")
               => (last'.ret = NONE /\ last'.exc = "none")]_vars

C6_Witness ==
  /\ last.op = "get"
  /\ last.tier = "file"
  /\ ~last.evicted
  /\ last.seen.kind = "entry"
  /\ now - last.seen.ts = TTL
  /\ last.ret = NONE
  /\ last.exc = "none"
  /\ files[last.key].kind = "absent"

\* C7: a get that returns absent leaves no entry for the key in the caller's
\* memory tier and (no deletion failing) no file, and a get of the same key
\* right after it returns absent again, raising nothing.
C7_MissLeavesNothing ==
  /\ (last.op = "get" /\ last.ret = NONE /\ last.exc = "none")
       => /\ memory_cache[last.proc][last.key].kind = "absent"
          /\ files[last.key].kind = "absent"
  /\ (last.op = "get" /\ last.afterMiss)
       => (last.ret = NONE /\ last.exc = "none")

\* C8: a set whose file write fails with an I/O error returns normally and
\* leaves (k, v) with the current time in the memory tier; a get of k in the
\* same process before expiry, that entry still in memory, returns v.
IOFailed(w) == w \in {"openfail", "writefail"}

C8_WriteFailureSwallowed ==
  [][/\ (last'.op = "set" /\ IOFailed(lastSet'[last'.key].write))
          => /\ last'.exc = "none"
             /\ memory_cache'[last'.proc][last'.key] = Entry(now, last'.val)
     /\ (/\ GetStep
         /\ lastSet[last'.key].done
         /\ IOFailed(lastSet[last'.key].write)
         /\ memory_cache[last'.proc][last'.key]
              = Entry(lastSet[last'.key].at, lastSet[last'.key].val)
         /\ now - lastSet[last'.key].at < TTL)
          => (last'.ret = lastSet[last'.key].val /\ last'.exc = "none")]_vars

C8_Witness ==
  /\ last.op = "get"
  /\ lastSet[last.key].done
  /\ lastSet[last.key].write = "writefail"
  /\ files[last.key].kind = "badjson"
  /\ now > lastSet[last.key].at
  /\ last.tier = "memory"
  /\ last.seen = Entry(lastSet[last.key].at, lastSet[last.key].val)
  /\ last.ret = lastSet[last.key].val
  /\ last.exc = "none"

\* C9: with the cache directory missing, or a file operation in it failing,
\* constructing a CacheManager and calling get, set and clear propagate no
\* I/O exception.
C9_NoExceptionWhenUnavailable ==
  (last.op \in {"construct", "get", "set", "clear"} /\ (~dirExists \/ last.io # NoFault))
    => last.exc # "OSError"

\* C10: after clear(m) returns, neither tier holds an entry older than m, no
\* malformed file is left, every well-formed entry of age at most m is as it
\* was, and nothing was added or modified.
C10_ClearSweeps ==
  [][(last'.op = "clear" /\ last'.exc = "none") =>
       LET m == last'.thr
           p == last'.proc
       IN \A k \in Keys :
            /\ memory_cache'[p][k].kind # "absent" => now - memory_cache'[p][k].ts <= m
            /\ files'[k].kind \in {"entry", "nodata"} => now - files'[k].ts <= m
            /\ files'[k].kind \notin Malformed
            /\ (files[k].kind = "entry" /\ now - files[k].ts <= m) => files'[k] = files[k]
            /\ (memory_cache[p][k].kind = "entry" /\ now - memory_cache[p][k].ts <= m)
                 => memory_cache'[p][k] = memory_cache[p][k]
            /\ files'[k] \in {files[k], NoEntry}
            /\ memory_cache'[p][k] \in {memory_cache[p][k], NoEntry}]_vars

\* C11: the count clear returns is the number of memory-tier entries it removed
\* plus the number of files it deleted; a file whose deletion failed is not
\* counted, and an entry in both tiers counts once for each tier.
C11_ClearCount ==
  [][(last'.op = "clear" /\ last'.exc = "none")
       => last'.count
            = Cardinality({k \in Keys : /\ memory_cache[last'.proc][k].kind # "absent"
                                        /\ memory_cache'[last'.proc][k].kind = "absent"})
              + Cardinality(Removed(files, files'))]_vars

\* A clear has removed an entry from both tiers and returned 2.
C11_Witness ==
  /\ last.op = "clear" /\ last.exc = "none"
  /\ last.count = 2 /\ last.removed # {}

\* The get of process q that follows an operation of another process p.
AfterOther == GetStep /\ last.proc \in Procs /\ last'.proc \in Procs /\ last.proc # last'.proc

\* The other process has just completed set(k, v2).
OtherSet == AfterOther /\ last.op = "set" /\ last.exc = "none" /\ last.key = last'.key

\* The other process has just deleted k's file, in get or in clear.
OtherDeleted == AfterOther /\ last.op \in {"get", "clear"} /\ last'.key \in last.removed

\* The reader holds a fresh entry for the key in its own memory tier.
HoldsFresh ==
  LET m == memory_cache[last'.proc][last'.key]
  IN m.kind # "absent" /\ now - m.ts < TTL

\* C12 as claimed: after another process completed set(k, v2) or deleted k's
\* file, the next get(k) of this process returns v2 (as JSON gives it back),
\* respectively absent, even when it still holds a fresh entry in memory.
C12_CrossProcessVisibility_Claimed ==
  [][/\ OtherSet => (last'.exc = "none" /\ last'.ret = JsonRoundTrip(last.val))
     /\ OtherDeleted => (last'.exc = "none" /\ last'.ret = NONE)]_vars

\* C12, amended: the same for a reader that holds no fresh entry for k in its
\* memory tier.
C12_CrossProcessVisibility ==
  [][/\ (OtherSet /\ ~HoldsFresh)
          => (last'.exc = "none" /\ last'.ret = JsonRoundTrip(last.val))
     /\ (OtherDeleted /\ ~HoldsFresh)
          => (last'.exc = "none" /\ last'.ret = NONE)]_vars

\* A process with a stale entry in memory has read what the other process set.
C12_Witness ==
  /\ last.op = "get" /\ last.evicted /\ last.tier = "file"
  /\ last.ret # NONE /\ lastSet[last.key].at = now
  /\ \E p \in Procs : p # last.proc /\ memory_cache[p][last.key].ts = now
\* d1 and d2 are structurally equal up to the order of dict items, at any depth.
RECURSIVE SameUpToOrder(_, _)
SameUpToOrder(d1, d2) ==
  /\ d1.tag = d2.tag
  /\ d1.atom = d2.atom
  /\ Len(d1.items) = Len(d2.items)
  /\ \A i \in DOMAIN d1.items : \E j \in DOMAIN d2.items :
        /\ d1.items[i].name = d2.items[j].name
        /\ SameUpToOrder(d1.items[i].val, d2.items[j].val)

KeyedOp(l) == l.op \in {"get", "set"} /\ l.exc # "TypeError"

\* C15: key data that are equal up to the insertion order of dict keys, at any
\* nesting level, derive the same key, so that get(d2) right after set(d1, v)
\* returns v.
C15_KeyDeterminism ==
  [][(KeyedOp(last) /\ KeyedOp(last') /\ SameUpToOrder(keyData.cur, keyData'.cur))
       => /\ last'.key = last.key
          /\ (last.op = "set" /\ last'.op = "get")
               => (last'.exc = "none" /\ last'.ret = last.val)]_vars

\* A get has returned what was set under key data whose items were inserted
\* in another order, at both levels.
C15_Witness ==
  /\ last.op = "get" /\ last.justSet # NONE /\ last.ret = last.justSet
  /\ SameUpToOrder(keyData.prev, keyData.cur)
  /\ keyData.prev.items[1].name # keyData.cur.items[1].name
  /\ \E i, j \in 1..2 :
        /\ keyData.prev.items[i].name = "message"
        /\ keyData.cur.items[j].name = "message"
        /\ keyData.prev.items[i].val # keyData.cur.items[j].val

\* Key data json.dumps has no text for: an object it cannot serialise in it.
RECURSIVE NoCanonicalText(_)
NoCanonicalText(d) ==
  \/ d.tag = "object"
  \/ \E i \in DOMAIN d.items : NoCanonicalText(d.items[i].val)

\* C16: get or set with key data that have no canonical text raises to the
\* caller and leaves the memory tier and the file tier as they were.
C16_BadKeyData ==
  [][(last'.op \in {"get", "set"} /\ NoCanonicalText(keyData'.cur))
       => /\ last'.exc = "TypeError"
          /\ memory_cache' = memory_cache
          /\ files' = files]_vars

\* A set with such key data has raised, with entries in both tiers.
C16_Witness ==
  /\ last.op = "set" /\ last.exc = "TypeError" /\ NoCanonicalText(keyData.cur)
  /\ \E k \in Keys : files[k].kind = "entry" /\ memory_cache["A"][k].kind = "entry"
\* The directory of the process taking the step, and the other one.
OwnDir == CacheDirOf[last'.proc]

\* C17: get, set and clear of a CacheManager on one directory leave the files
\* of the sibling directory and the memory tier of its CacheManager as they
\* are, and a get returns only what its own memory tier or its own directory
\* holds for the key, also when both use the same key.
C17_NamespaceIsolation ==
  [][(last'.op \in {"get", "set", "clear"} /\ last'.proc \in Procs)
       => /\ \A d \in Dirs \ {OwnDir} : DirFiles(d)' = DirFiles(d)
          /\ \A q \in Procs \ {last'.proc} : memory_cache'[q] = memory_cache[q]
          /\ (last'.op = "get" /\ last'.ret # NONE)
               => \/ /\ memory_cache[last'.proc][last'.key].kind = "entry"
                     /\ memory_cache[last'.proc][last'.key].data = last'.ret
                  \/ /\ DirFiles(OwnDir)[last'.key].kind = "entry"
                     /\ DirFiles(OwnDir)[last'.key].data = last'.ret]_vars

\* Both directories hold a different entry under the same key, and a process
\* with an empty memory tier has read the one of its own directory.
C17_Witness ==
  /\ last.op = "get" /\ last.proc = "B" /\ last.tier = "file"
  /\ sibling["k1"].kind = "entry" /\ last.ret = sibling["k1"].data
  /\ files["k1"].kind = "entry" /\ files["k1"].data # last.ret
\* A file exists under the name <k>.json and a block of it is not written.
Partial(k) ==
  /\ files[k].kind # "absent"
  /\ blocks[k].b1 = NoBlock \/ blocks[k].b2 = NoBlock

\* The step is a read of <k>.json: by a get that goes to the file tier, or by
\* a clear, which opens every file of the directory.
Reads(k) ==
  \/ last'.op = "get" /\ last'.key = k /\ last'.tier = "file"
  \/ last'.op = "clear" /\ last'.exc = "none" /\ files[k].kind # "absent"

\* C13: while a set is writing <key>.json in one process, a get or clear of
\* another process never reads, under that name, a file that is empty or
\* holds only part of the entry.
C13_NoPartialFile ==
  [][\A k \in Keys : Reads(k) => ~Partial(k)]_vars

\* C14: a get returns absent or a value that was passed to set for that key;
\* never a value made of parts of different writes.
C14_NoTornValue ==
  [][(GetStep /\ last'.exc = "none")
       => \/ last'.ret = NONE
          \/ \E v \in passed[last'.key] : last'.ret \in {v, JsonRoundTrip(v)}]_vars
\* The covered files of a tree: the files that end with .py, each with its
\* path, modification time and size (with neither, when they cannot be read).
CoveredFiles(t) ==
  {[path |-> path,
    mtime |-> IF t.files[path].kind = "file" THEN t.files[path].mtime ELSE -1,
    size |-> IF t.files[path].kind = "file" THEN Size(t.files[path].text) ELSE -1] :
     path \in {q \in {"a.py", "l.py", "pkg/b.py"} : t.files[q].kind # "absent"}}

\* C18: the fingerprint of a directory differs from the one computed before
\* exactly when a covered .py file was added, removed, resized or got another
\* modification time in between; changes to other files do not count.
C18_Fingerprint ==
  (run.op = "key" /\ run.tree.isdir /\ tree.isdir)
    => (GenerateCacheKey(tree) = run.key <=> CoveredFiles(tree) = CoveredFiles(run.tree))

\* Since the fingerprint was computed, a.py was saved again in the same
\* second with another size, nothing else changed, and the fingerprint differs.
C18_Witness ==
  /\ run.op = "key" /\ run.tree.isdir /\ tree.isdir
  /\ run.tree.files["a.py"].kind = "file" /\ tree.files["a.py"].kind = "file"
  /\ run.tree.files["a.py"].mtime = tree.files["a.py"].mtime
  /\ Size(run.tree.files["a.py"].text) # Size(tree.files["a.py"].text)
  /\ \A path \in Paths \ {"a.py"} : run.tree.files[path] = tree.files[path]
  /\ tree.files["pkg/b.py"].kind = "file" /\ tree.files["notes.txt"].kind = "file"
  /\ GenerateCacheKey(tree) # run.key

\* The step is a call of persistent_cached_analyze_code.
AnalyzeStep == run'.op = "analyze" /\ run'.calls = run.calls + 1

\* What get gives for the fingerprint of the tree, from a CacheManager just
\* made on the code analysis cache.
CachedFor(t) == GetOutcome(NoEntry, CacheFile(GenerateCacheKey(t)), now, NoFault).ret

\* C19: persistent_cached_analyze_code looks the fingerprint of the directory
\* up; on a hit it returns the cached result and runs no analysis and writes
\* nothing; on a miss it runs analyze_project once, stores the result under
\* the fingerprint and returns it.
C19_CachedAnalysis ==
  [][AnalyzeStep
       => /\ run'.key = GenerateCacheKey(tree)
          /\ CachedFor(tree) # NONE
               => /\ run'.ret = CachedFor(tree)
                  /\ run'.analyses = 0
                  /\ codeCache' = codeCache
          /\ CachedFor(tree) = NONE
               => /\ run'.analyses = 1
                  /\ run'.ret = AnalyzeProject(tree)
                  /\ GenerateCacheKey(tree) \in DOMAIN codeCache'
                  /\ codeCache'[GenerateCacheKey(tree)] = Entry(now, run'.ret)
                  /\ \A key \in DOMAIN codeCache \ {GenerateCacheKey(tree)} :
                        key \in DOMAIN codeCache' /\ codeCache'[key] = codeCache[key]]_vars

\* A second call has found the result of the first and run no analysis.
C19_Witness ==
  /\ run.op = "analyze" /\ run.calls = 2
  /\ run.hit /\ run.analyses = 0
  /\ run.ret = AnalyzeProject(tree) /\ run.ret = run.prevRet

\* The call before this step cached the analysis of the tree as it was.
Cached == run.op = "analyze" /\ run.key \in DOMAIN codeCache

\* A covered file that was there at the last call has been edited and saved
\* since: it holds another text.
Modified ==
  \E path \in {"a.py", "pkg/b.py"} :
    /\ run.tree.files[path].kind = "file" /\ tree.files[path].kind = "file"
    /\ run.tree.files[path].text # tree.files[path].text

\* The same, the save leaving the file with another size or another
\* modification time.
ModifiedVisibly ==
  \E path \in {"a.py", "pkg/b.py"} :
    /\ run.tree.files[path].kind = "file" /\ tree.files[path].kind = "file"
    /\ run.tree.files[path].text # tree.files[path].text
    /\ \/ run.tree.files[path].mtime # tree.files[path].mtime
       \/ Size(run.tree.files[path].text) # Size(tree.files[path].text)

\* C20 as claimed: once the analysis of a directory is cached, any edit of a
\* covered file makes the next call run a fresh analysis of the tree as it is,
\* under another fingerprint than the one the old result is cached under.
C20_Invalidation_Claimed ==
  [][(AnalyzeStep /\ Cached /\ Modified)
       => /\ run'.analyses = 1
          /\ run'.ret = AnalyzeProject(tree)
          /\ run'.key # run.key]_vars

\* C20, amended: an edit that leaves the file with another size or another
\* modification time makes the next call look up another fingerprint, and,
\* nothing fresh being cached under that one, run a fresh analysis of the tree
\* as it is; after an edit that changes neither in any covered file the call
\* looks up the old fingerprint.
C20_Invalidation ==
  [][(AnalyzeStep /\ Cached)
       => /\ ModifiedVisibly
               => /\ run'.key # run.key
                  /\ CachedFor(tree) = NONE
                       => (run'.analyses = 1 /\ run'.ret = AnalyzeProject(tree))
          /\ (Modified /\ CoveredFiles(tree) = CoveredFiles(run.tree))
               => run'.key = run.key]_vars

\* After an edit, the second call has run an analysis that differs from the
\* cached one, which is still in the cache under the old fingerprint.
C20_Witness ==
  /\ run.op = "analyze" /\ run.calls = 2 /\ run.analyses = 1
  /\ run.key # run.prevKey /\ run.ret # run.prevRet
  /\ run.prevKey \in DOMAIN codeCache /\ codeCache[run.prevKey].data = run.prevRet
  /\ tree.files["a.py"].kind = "file" /\ run.ret = AnalyzeProject(tree)
  /\ \E text \in Texts : text # tree.files["a.py"].text
        /\ run.prevRet = AnalyzeProject([tree EXCEPT !.files["a.py"].text = text])
\* The send_message step being taken, and the slot or file of process p that
\* holds an entry of the question's key still within its time to live.
SendStep(p) == client'.proc = p /\ last'.op = "send_message"

FreshFor(p) ==
  LET k == RequestKey[Question]
      m == memory_cache[p][k]
      f == files[k]
  IN IF m.kind = "entry" /\ MemFresh(m, now) THEN m
     ELSE IF f.kind = "entry" /\ FileFresh(f, now) THEN f
     ELSE NoEntry

\* C21: whenever the cache holds a fresh entry for the key {content,
\* thread_id}, send_message posts no message, creates no run and returns the
\* cached response.
C21_ServiceOnlyOnMiss ==
  [][\A p \in Procs :
       SendStep(p) /\ FreshFor(p).kind = "entry" =>
         /\ ~client'.posted
         /\ ~client'.ran
         /\ client'.ret = FreshFor(p).data]_vars

\* C22: analyze_file never raises to its caller: for a path that is not a
\* readable .py file, for a file with a syntax error and for any I/O error it
\* returns None.
C22_AnalyzeFileNeverRaises ==
  analysis.op = "analyze_file" =>
    /\ analysis.out.exc = "none"
    /\ (~EndsWithPy(analysis.path) \/ analysis.file.kind # "module")
         => ~analysis.out.found

C22_Witness ==
  /\ analysis.op = "analyze_file"
  /\ EndsWithPy(analysis.path)
  /\ analysis.file.kind = "unreadable"
  /\ ~analysis.out.found
  /\ analysis.out.exc = "none"

\* The nodes of a sequence of statements, at any depth, and the lines of the
\* entries of a list of functions or methods.
RECURSIVE NodesOf(_)
NodesOf(nodes) ==
  IF nodes = << >> THEN {}
  ELSE {Head(nodes)} \cup NodesOf(Head(nodes).body) \cup NodesOf(Tail(nodes))

Linenos(infos) == {infos[i].lineno : i \in DOMAIN infos}

Named(infos, name) == {i \in DOMAIN infos : infos[i].name = name}

FooBar ==
  <<Node("ClassDef", "Foo", 1, <<Node("FunctionDef", "bar", 2, << >>)>>),
    Node("FunctionDef", "bar", 4, << >>)>>

\* C24: a function defined directly in a class body is in that class's methods
\* list and not in the top-level functions list; a function defined at module
\* top level is in the top-level functions list and in no methods list; for
\* class Foo defining bar beside a free bar, the top-level list holds exactly
\* one bar and Foo's methods hold exactly one bar.
C24_Attribution ==
  analysis.out.found =>
    LET m == analysis.file.module
        a == analysis.out.analyzer
    IN /\ \A c \in NodesOf(m) : \A i \in DOMAIN c.body :
            c.kind = "ClassDef" /\ c.body[i].kind = "FunctionDef" =>
              /\ \E j \in DOMAIN a.classes :
                    /\ a.classes[j].lineno = c.lineno
                    /\ c.body[i].lineno \in Linenos(a.classes[j].methods)
              /\ c.body[i].lineno \notin Linenos(a.functions)
       /\ \A i \in DOMAIN m :
            m[i].kind = "FunctionDef" =>
              /\ m[i].lineno \in Linenos(a.functions)
              /\ \A j \in DOMAIN a.classes :
                    m[i].lineno \notin Linenos(a.classes[j].methods)
       /\ m = FooBar =>
            /\ Cardinality(Named(a.functions, "bar")) = 1
            /\ \A j \in DOMAIN a.classes :
                  a.classes[j].name = "Foo" =>
                    Cardinality(Named(a.classes[j].methods, "bar")) = 1

\* C25: every function lexically at module top level is listed as a top-level
\* function by generate_file_context (detailed) and generate_code_summary,
\* even when a class of the file has a method of the same name.
C25_StructuralListing ==
  analysis.op = "generate_file_context" =>
    \A i \in DOMAIN analysis.file.module :
      analysis.file.module[i].kind = "FunctionDef" =>
        analysis.file.module[i].lineno \in Linenos(analysis.listed)

\* The files of a tree that analyze_file can analyse, and the sum of a
\* sequence of numbers.
Analysable(t) ==
  {path \in Paths :
     /\ t.isdir /\ EndsWithPy(path) /\ t.files[path].kind # "absent"
     /\ AnalyzeFile(path, AtPath(t.files[path])).found}

RECURSIVE Sum(_)
Sum(ns) == IF ns = << >> THEN 0 ELSE Head(ns) + Sum(Tail(ns))

\* C23: analyze_project visits every .py file under the directory, skips a
\* file whose analysis fails without stopping, returns in files exactly the
\* files analysed, and its summary totals are the number of entries of files
\* and the sums of the lengths of their functions, classes and imports.
C23_ProjectScan ==
  report.op = "analyze_project" =>
    LET fs == report.result.files
        r == report.result
    IN /\ {fs[i].path : i \in DOMAIN fs} = Analysable(report.tree)
       /\ Len(fs) = Cardinality(Analysable(report.tree))
       /\ \A i \in DOMAIN fs :
            LET a == AnalyzeFile(fs[i].path, AtPath(report.tree.files[fs[i].path])).analyzer
            IN /\ fs[i].functions = a.functions
               /\ fs[i].classes = a.classes
               /\ fs[i].imports = a.imports
       /\ r.total_files = Len(fs)
       /\ r.total_functions = Sum([i \in DOMAIN fs |-> Len(fs[i].functions)])
       /\ r.total_classes = Sum([i \in DOMAIN fs |-> Len(fs[i].classes)])
       /\ r.total_imports = Sum([i \in DOMAIN fs |-> Len(fs[i].imports)])

\* A scan that met a broken link and a syntax error, and a file in a package
\* after them.
C23_Witness ==
  /\ report.op = "analyze_project"
  /\ report.tree.files["l.py"].kind = "broken"
  /\ report.tree.files["a.py"].kind = "file"
  /\ report.tree.files["a.py"].text = "bad"
  /\ report.tree.files["pkg/b.py"].kind = "file"
  /\ report.tree.files["pkg/b.py"].text = "gg"
  /\ report.result.total_files = 1
  /\ report.result.total_functions = 2
  /\ report.result.total_imports = 1

\* len(question)//4 plus the sum of len(formatted item)//4, over the items
\* generate_prompt_for_openai formatted.
ClaimedEstimate ==
  (asm.question.len \div 4)
    + Total([i \in DOMAIN asm.out.formatted |-> asm.out.formatted[i].n \div 4])

Prefix(s, t, n) == Len(s) <= n /\ s = SubSeq(t, 1, Len(s))

AllDicts(items) == \A i \in DOMAIN items : items[i].tag = "dict"

C28_PromptBounded ==
  asm.op = "generate_prompt" /\ asm.out.exc = "none" =>
    Length(asm.out.prompt) <= 8 * token_budget

\* The score the ranking is to give: a point for each word of the query in
\* the name or docstring, a class weighing more than a function.
Score(x) == Cardinality(x.words \cap asm.question.words) * (IF x.kind = "class" THEN 5 ELSE 3)

OfKind(items, kind) == SelectSeq(items, LAMBDA x : x.kind = kind)

Descending(items) ==
  \A i, j \in DOMAIN items : i < j => Score(items[i]) >= Score(items[j])

\* C26: the functions and the classes handed on for a query are ordered by
\* descending score of the query's keywords in their name or docstring.
C26_RankedByQuery ==
  asm.op = "process_query" =>
    /\ Descending(OfKind(asm.ranked, "function"))
    /\ Descending(OfKind(asm.ranked, "class"))

\* The text holds the question as it was asked.
Verbatim(text) ==
  \E i \in DOMAIN text : text[i] = Part(asm.question.text, asm.question.len)

\* C29: generate_prompt_for_openai returns a prompt for every input, and the
\* text process_query_with_context returns (without a client) or sends to
\* the model (with one) holds the user question verbatim.
C29_QuestionKept ==
  /\ asm.op = "generate_prompt" => asm.out.exc = "none" /\ Verbatim(asm.out.prompt)
  /\ asm.op = "process_query" => Verbatim(IF asm.client THEN asm.sent ELSE asm.ret)

\* C30: once a KeyboardInterrupt has arrived in run_conversation, no
\* further listen or send_message call is made, and when run_conversation
\* is left nothing is playing any more and audio_handler.cleanup() has been
\* executed.
Interrupted == conv.interrupts > 0

Left == conv.pc \in {"returned", "raised"}

C30_InterruptShutsDown ==
  /\ [][Interrupted => conv'.listens = conv.listens /\ conv'.sends = conv.sends]_vars
  /\ [](Interrupted /\ Left => ~conv.playing /\ conv.cleaned)

\* C37: a set that raises has changed neither the memory tier nor the file
\* tier; in particular it leaves no truncated or malformed file behind.
C37_SetAllOrNothing ==
  [][last'.op = "set" /\ last'.exc # "none" =>
       memory_cache' = memory_cache /\ files' = files]_vars

\* C38: with a single CacheManager and no I/O failures, every entry of the
\* memory tier has both fields and a file <key>.json that holds the same
\* timestamp and an equal value.
C38_TiersConsistent ==
  \A k \in Keys :
    LET m == memory_cache["A"][k]
    IN m.kind # "absent" =>
         /\ m.kind = "entry"
         /\ files[k].kind = "entry"
         /\ files[k].ts = m.ts
         /\ files[k].data = m.data

\* C39: a clear() with the default threshold removes exactly the entries a
\* get at that time would treat as stale: of the well-formed entries in the
\* files and in the caller's memory tier, those and only those are gone
\* afterwards.
C39_ClearAgreesWithGet ==
  [][last'.op = "clear" /\ last'.thr = TTL /\ last'.exc = "none" =>
       \A k \in Keys :
         /\ files[k].kind = "entry" =>
              (files'[k].kind = "absent" <=> ~FileFresh(files[k], now))
         /\ memory_cache[last'.proc][k].kind = "entry" =>
              (memory_cache'[last'.proc][k].kind = "absent"
                 <=> ~MemFresh(memory_cache[last'.proc][k], now))]_vars

\* C31: a process that is in no cache operation has no cache file open,
\* however the operation before ended, and inside an operation a file is
\* open only within the with block that opened it.
C31_HandlesClosed ==
  \A p \in Procs :
    step[p].handle => step[p].at \in {"load", "dump"}

\* An operation that had a file open was left by an exception.
C31_Witness ==
  \E p \in Procs :
    /\ step[p].at = "idle" /\ step[p].opened
    /\ step[p].exc \in {"TypeError", "KeyboardInterrupt"}

\* C35: a get or clear that another process's deletions and writes fall
\* into ends in a normal return; unless the user interrupts it, it raises
\* nothing.
C35_NoRaiseUnderRaces ==
  \A p \in Procs :
    step[p].op \in {"get", "clear"} /\ step[p].at = "idle" =>
      step[p].exc \in {"none", "KeyboardInterrupt"}

\* C36: once a set of k1 has returned, and no later set has begun, the
\* file holds the entry it wrote for as long as that entry is fresh.
C36_CompletedSetSurvives ==
  LET s == lastSet[StepKey]
  IN s.done /\ now - s.at < TTL =>
       files[StepKey] = Entry(s.at, JsonRoundTrip(s.val))

\* C33: send_message calls cache.set only for a request without image whose
\* run completed with an assistant text; every other request leaves each
\* entry of the cache as it was or removes it (an expired one), and a
\* request with an image leaves the cache alone altogether.
C33_StoresOnlyResponses ==
  [][\A p \in Procs :
       SendStep(p) =>
         /\ client'.stored =>
              /\ client'.image = NONE /\ client'.content # ""
              /\ client'.ran /\ client'.exchange \in Answers
         /\ ~client'.stored =>
              /\ lastSet' = lastSet
              /\ \A k \in Keys :
                   /\ files'[k] \in {files[k], NoEntry}
                   /\ memory_cache'[p][k] \in {memory_cache[p][k], NoEntry, files[k]}
         /\ client'.image # NONE =>
              memory_cache' = memory_cache /\ files' = files]_vars

\* A request with an image ran to a reply, which was not stored, while the
\* cache held the reply to the same text without image.
C33_Witness ==
  /\ client.image = "pic.jpg" /\ client.exchange \in Answers /\ ~client.stored
  /\ files[RequestKey[client.content]].kind = "entry"

\* C34: once send_message has been given a final status of its run it
\* leaves the loop (to fetch the response, or returning the error), and
\* it returns an assistant's response only for a run it has seen completed.
C34_PollingEnds ==
  /\ client.seen \in FinalStatuses => client.pc \in {"list", "returned"}
  /\ client.pc = "returned" /\ client.exchange \in Answers => client.seen = "completed"

\* len(docstring) + len(args) of a function, which has no arguments here,
\* and len(docstring) + len(methods) of a class.
OwnScore(x) == IF x.kind = "class" THEN x.doc + x.methods ELSE x.doc

DescendingOwn(items) ==
  \A i, j \in DOMAIN items : i < j => OwnScore(items[i]) >= OwnScore(items[j])

\* C32: after process_query_with_context has ranked the analysis, every
\* function and every class handed to the prompt carries its own relevance
\* score, docstring length plus arguments for a function and docstring
\* length plus methods for a class, and the functions and the classes are
\* each in descending order of that score.
C32_RankedByOwnScore ==
  asm.op = "process_query" =>
    /\ \A i \in DOMAIN asm.ranked : asm.ranked[i].relevance = OwnScore(asm.ranked[i])
    /\ DescendingOwn(OfKind(asm.ranked, "function"))
    /\ DescendingOwn(OfKind(asm.ranked, "class"))

\* C40: what get_project_analysis returns, with the persistent cache or
\* with lru_cache, is what analyze_project gives for the directory as it is
\* at the call: the same files and the same summary counts.
C40_UnifiedAnalysis ==
  report.op = "get_project_analysis" => report.result = AnalyzeProjectResult(report.tree)

====
